---- MODULE Spec2Model ----
(***************************************************************************)
(* Chunk streaming scheduler of voxel-open-world: ChunkManager             *)
(* (src/engine/chunkManager.ts) and the chunk coordinate helpers           *)
(* (src/lib/chunkMath.ts).                                                 *)
(*                                                                         *)
(* A Map<string, T> is a sequence of entries [k, v] in insertion order,    *)
(* a chunk key is the sequence of characters of "cx,cz", an optional value *)
(* (undefined / null) is a sequence of length 0 or 1.                      *)
(***************************************************************************)
EXTENDS Integers, Sequences, FiniteSets, TLC

VARIABLES activeRadius, removeRadius, loaded, inflight, queued, readyToApply,
          seedStr, call, result, posted, calls, neededArgs, neededKeys,
          chunks, workerResponsesRef, forceApplyResponsesRef, workerInbox,
          destroyedVoxelIndexRef, seedProp, destroyedVoxelIndex, deltasReceived,
          workerPosted, handled, mathArgs, mathResult, meshInput, meshResult,
          suppliedResponses, noiseCache, cacheClock, cacheInserted, cacheRows,
          cacheEvent, solidInput, solidResult, seamInput, seamMeshes

\* the ChunkManager and its caller
managerVars == <<activeRadius, removeRadius, loaded, inflight, queued, readyToApply,
                 seedStr, call, result, posted, calls>>

\* computeNeededChunkKeys called on its own
neededVars == <<neededArgs, neededKeys>>

\* Game: the rendered chunk map, the two response queues, the messages on
\* their way to the worker, the main thread's destroyed-voxel index, the
\* seedStr prop
gameVars == <<chunks, workerResponsesRef, forceApplyResponsesRef, workerInbox,
              destroyedVoxelIndexRef, seedProp>>

\* the mesh worker: its destroyed-voxel index, every triple it was sent, the
\* last payload it posted, the number of requests it handled
workerVars == <<destroyedVoxelIndex, deltasReceived, workerPosted, handled>>

\* floorDiv / floorMod and greedyMesh called on their own
mathVars == <<mathArgs, mathResult>>

meshVars == <<meshInput, meshResult>>

\* the workerResponses of the last tick, kept where a property reads them
batchVars == <<suppliedResponses>>

\* getVoxel.ts: the noise cache (seed -> surfaceCache, surfaceCacheSize),
\* and what the properties keep of its lookups: the number of lookups made,
\* when each cached profile and each row of a surfaceCache was put in, and
\* the last lookup with the profile it evicted
cacheVars == <<noiseCache, cacheClock, cacheInserted, cacheRows, cacheEvent>>

\* getVoxel and isSolidAtVoxel asked about one voxel: the surface profile of
\* its column, its coordinates and the destroyed-voxel index; the two answers
solidVars == <<solidInput, solidResult>>

\* two adjacent chunks: the surface profiles of the columns, the destroyed
\* voxels and the axis of adjacency; the meshes of the two chunks
seamVars == <<seamInput, seamMeshes>>

\* the variables of the components specified on their own further down
extraVars == <<batchVars, cacheVars, solidVars, seamVars>>

vars == <<managerVars, neededVars, gameVars, workerVars, mathVars, meshVars, extraVars>>

(***************************************************************************)
(* Bounds of the exploration.                                              *)
(***************************************************************************)
MaxCalls == 3
MaxLookups == 5
CacheLimit == 3
MaxGameSteps == 5
MaxRequests == 3
MaxAbs == 40
MaxDivisor == 17
MaxSolid == 4
MaxCenter == 2
MaxRadius == 2
MaxHutReach == 9
MaxBelow == 4
MaxAbove == 5
SeamSize == 2
SeamHeight == 2

(***************************************************************************)
(* Program constants and the inputs the callers use.                       *)
(***************************************************************************)
CHUNK_SIZE == 16
MaxInflight == 1
MAX_WORKER_RESPONSES_PER_FRAME == 1
MAX_FORCE_APPLY_RESPONSES_PER_FRAME == 1
MAX_PENDING_WORKER_RESPONSES == 96
MAX_PENDING_FORCE_APPLY_RESPONSES == 96
VOXEL_AIR == 0
VOXEL_GRASS == 1
VOXEL_DIRT == 2
VOXEL_STONE == 3
DIRT_LAYER_DEPTH == 3
VILLAGE_CELL_SIZE == 72
VILLAGE_RADIUS == 18
VILLAGE_ROAD_HALF_WIDTH == 2

\* the surface height of the columns asked about
ProbeSurface == 6

\* constructor options <<activeRadius, removeRadius>> and tick inputs
Configs == { <<0, 0>>, <<0, 1>>, <<1, 2>> }
Positions == { <<0, 0>>, <<0, -1>>, <<16, -1>> }
Seeds == { "demo", "other" }

(***************************************************************************)
(* chunkMath.ts                                                            *)
(***************************************************************************)
\* mutant: the quotient is truncated toward zero (Math.trunc, a / b | 0)
floorDiv_Truncates(a, b) ==
  IF a >= 0 THEN a \div b ELSE -((-a) \div b)

\* Math.floor(a / b) for b > 0
floorDiv(a, b) ==
  IF a >= 0 THEN a \div b ELSE -(((-a) + b - 1) \div b)

floorMod(a, b) == a - floorDiv(a, b) * b

worldToChunk(x, chunkSize) ==
  [chunk |-> floorDiv(x, chunkSize), local |-> floorMod(x, chunkSize)]

DigitChars == <<"0", "1", "2", "3", "4", "5", "6", "7", "8", "9">>

RECURSIVE NatToChars(_)
NatToChars(n) ==
  IF n < 10 THEN <<DigitChars[n + 1]>>
  ELSE NatToChars(n \div 10) \o <<DigitChars[(n % 10) + 1]>>

NumberToString(n) ==
  IF n < 0 THEN <<"-">> \o NatToChars(-n) ELSE NatToChars(n)

chunkKey(cx, cz) == NumberToString(cx) \o <<",">> \o NumberToString(cz)

(***************************************************************************)
(* chunkManager.ts: module-level helpers                                   *)
(***************************************************************************)
DigitValue(c) == CHOOSE d \in 0..9 : DigitChars[d + 1] = c

RECURSIVE DigitsToNat(_, _)
DigitsToNat(chars, acc) ==
  IF chars = <<>> THEN acc
  ELSE DigitsToNat(Tail(chars), acc * 10 + DigitValue(Head(chars)))

StringToNumber(chars) ==
  IF chars = <<>> THEN 0
  ELSE IF Head(chars) = "-" THEN -DigitsToNat(Tail(chars), 0)
  ELSE DigitsToNat(chars, 0)

CommaAt(chars) == CHOOSE i \in 1..Len(chars) : chars[i] = "," /\ \A j \in 1..(i - 1) : chars[j] # ","

parseChunkKey(key) ==
  LET c == CommaAt(key)
  IN  [cx |-> StringToNumber(SubSeq(key, 1, c - 1)),
       cz |-> StringToNumber(SubSeq(key, c + 1, Len(key)))]

Abs(n) == IF n < 0 THEN -n ELSE n

Max(a, b) == IF a >= b THEN a ELSE b

chebyshevDistance(cx, cz, centerCx, centerCz) ==
  Max(Abs(cx - centerCx), Abs(cz - centerCz))

isInRadius(cx, cz, centerCx, centerCz, radius) ==
  chebyshevDistance(cx, cz, centerCx, centerCz) <= radius

\* statement sequencing: evaluate v once, then continue with F(v)
Then(v, F(_)) == CHOOSE y \in { F(x) : x \in {v} } : TRUE

(***************************************************************************)
(* computeNeededChunkKeys                                                  *)
(***************************************************************************)
\* mutant: ties in distance broken by cx before cz
compareCoords_CxBeforeCz(a, b, centerCx, centerCz) ==
  LET aDistance == Max(Abs(a.cx - centerCx), Abs(a.cz - centerCz))
      bDistance == Max(Abs(b.cx - centerCx), Abs(b.cz - centerCz))
  IN  IF aDistance # bDistance THEN aDistance - bDistance
      ELSE IF a.cx # b.cx THEN a.cx - b.cx
      ELSE a.cz - b.cz

\* the comparator passed to coords.sort: negative when a sorts before b
compareCoords(a, b, centerCx, centerCz) ==
  LET aDistance == chebyshevDistance(a.cx, a.cz, centerCx, centerCz)
      bDistance == chebyshevDistance(b.cx, b.cz, centerCx, centerCz)
  IN  IF aDistance # bDistance THEN aDistance - bDistance
      ELSE IF a.cz # b.cz THEN a.cz - b.cz
      ELSE a.cx - b.cx

\* the two nested loops pushing coords, dz outer, dx inner
squareCoords(centerCx, centerCz, radius) ==
  LET side == 2 * radius + 1
  IN  [i \in 1..(side * side) |->
         [cx |-> centerCx + ((i - 1) % side) - radius,
          cz |-> centerCz + ((i - 1) \div side) - radius]]

RECURSIVE InsertSorted(_, _, _, _)
InsertSorted(sorted, e, centerCx, centerCz) ==
  IF sorted = <<>> THEN <<e>>
  ELSE IF compareCoords(e, Head(sorted), centerCx, centerCz) < 0
       THEN <<e>> \o sorted
       ELSE <<Head(sorted)>> \o InsertSorted(Tail(sorted), e, centerCx, centerCz)

\* Array.prototype.sort (stable) with compareCoords
RECURSIVE SortCoords(_, _, _)
SortCoords(coords, centerCx, centerCz) ==
  IF coords = <<>> THEN <<>>
  ELSE InsertSorted(SortCoords(SubSeq(coords, 1, Len(coords) - 1), centerCx, centerCz),
                    coords[Len(coords)], centerCx, centerCz)

\* mutant: the coords are not sorted
computeNeededChunkKeys_Unsorted(centerCx, centerCz, activeRadiusArg) ==
  LET radius == Max(0, activeRadiusArg)
      coords == squareCoords(centerCx, centerCz, radius)
  IN  [i \in 1..Len(coords) |-> chunkKey(coords[i].cx, coords[i].cz)]

computeNeededChunkKeys(centerCx, centerCz, activeRadiusArg) ==
  LET radius == Max(0, activeRadiusArg)
  IN  Then(SortCoords(squareCoords(centerCx, centerCz, radius), centerCx, centerCz), LAMBDA sorted :
        [i \in 1..Len(sorted) |-> chunkKey(sorted[i].cx, sorted[i].cz)])

(***************************************************************************)
(* Map<string, T>                                                          *)
(***************************************************************************)
MapHas(map, key) == \E i \in 1..Len(map) : map[i].k = key

MapGet(map, key) == map[CHOOSE i \in 1..Len(map) : map[i].k = key].v

MapSet(map, key, value) ==
  IF MapHas(map, key)
  THEN [i \in 1..Len(map) |-> IF map[i].k = key THEN [k |-> key, v |-> value] ELSE map[i]]
  ELSE Append(map, [k |-> key, v |-> value])

MapDeleteTest(e, key) == e.k # key

MapDelete(map, key) == SelectSeq(map, LAMBDA e : MapDeleteTest(e, key))

MapKeys(map) == [i \in 1..Len(map) |-> map[i].k]

KeySet(map) == { map[i].k : i \in 1..Len(map) }

(***************************************************************************)
(* ChunkManager: the manager is the record m of its private fields         *)
(***************************************************************************)
Manager == [activeRadius |-> activeRadius, removeRadius |-> removeRadius,
            loaded |-> loaded, inflight |-> inflight, queued |-> queued,
            readyToApply |-> readyToApply, seedStr |-> seedStr]

\* mutant: the key is not removed from inflight
handleWorkerResponse_KeepsInflight(m, response) ==
  LET key == chunkKey(response.cx, response.cz)
  IN  IF ~MapHas(m.inflight, key) THEN m
      ELSE [m EXCEPT !.readyToApply = MapSet(m.readyToApply, key, response)]

\* mutant: no check that the key is inflight
handleWorkerResponse_NoInflightCheck(m, response) ==
  LET key == chunkKey(response.cx, response.cz)
  IN  [m EXCEPT !.inflight = MapDelete(m.inflight, key),
                !.readyToApply = MapSet(m.readyToApply, key, response)]

handleWorkerResponse(m, response) ==
  LET key == chunkKey(response.cx, response.cz)
  IN  IF ~MapHas(m.inflight, key) THEN m
      ELSE [m EXCEPT !.inflight = MapDelete(m.inflight, key),
                     !.readyToApply = MapSet(m.readyToApply, key, response)]

RECURSIVE handleWorkerResponses(_, _)
handleWorkerResponses(m, responses) ==
  IF responses = <<>> THEN m
  ELSE handleWorkerResponses(handleWorkerResponse(m, Head(responses)), Tail(responses))

\* mutant: inflight is not cleared
resetForSeedIfNeeded_KeepsInflight(m, seed) ==
  IF m.seedStr = <<seed>> THEN [m |-> m, unloadKeys |-> <<>>]
  ELSE [m |-> [m EXCEPT !.loaded = <<>>, !.queued = <<>>,
                        !.readyToApply = <<>>, !.seedStr = <<seed>>],
        unloadKeys |-> MapKeys(m.loaded)]

\* returns the manager and the unloadKeys pushed
resetForSeedIfNeeded(m, seed) ==
  IF m.seedStr = <<seed>> THEN [m |-> m, unloadKeys |-> <<>>]
  ELSE [m |-> [m EXCEPT !.loaded = <<>>, !.inflight = <<>>, !.queued = <<>>,
                        !.readyToApply = <<>>, !.seedStr = <<seed>>],
        unloadKeys |-> MapKeys(m.loaded)]

KeyInRadius(key, centerCx, centerCz, radius) ==
  LET coord == parseChunkKey(key)
  IN  isInRadius(coord.cx, coord.cz, centerCx, centerCz, radius)

\* mutant: nothing is pruned
pruneOutsideRemoveRadius_KeepsAll(map, centerCx, centerCz, radius) == map

pruneOutsideRemoveRadius(map, centerCx, centerCz, radius) ==
  SelectSeq(map, LAMBDA e : KeyInRadius(e.k, centerCx, centerCz, radius))

\* mutant: loaded is pruned at activeRadius
unloadOutsideRemoveRadius_ActiveRadius(m, centerCx, centerCz) ==
  LET gone == SelectSeq(m.loaded, LAMBDA e : ~KeyInRadius(e.k, centerCx, centerCz, m.activeRadius))
  IN  [m |-> [m EXCEPT !.loaded = pruneOutsideRemoveRadius(m.loaded, centerCx, centerCz, m.activeRadius)],
       unloadKeys |-> MapKeys(gone)]

\* mutant: the key is pushed to unloadKeys but stays in loaded
unloadOutsideRemoveRadius_NoDelete(m, centerCx, centerCz) ==
  LET gone == SelectSeq(m.loaded, LAMBDA e : ~KeyInRadius(e.k, centerCx, centerCz, m.removeRadius))
  IN  [m |-> m, unloadKeys |-> MapKeys(gone)]

\* returns the manager and the keys pushed to unloadKeys
unloadOutsideRemoveRadius(m, centerCx, centerCz) ==
  LET gone == SelectSeq(m.loaded, LAMBDA e : ~KeyInRadius(e.k, centerCx, centerCz, m.removeRadius))
  IN  [m |-> [m EXCEPT !.loaded = pruneOutsideRemoveRadius(m.loaded, centerCx, centerCz, m.removeRadius)],
       unloadKeys |-> MapKeys(gone)]

\* mutant: a needed key in inflight is enqueued again
RECURSIVE enqueueNeeded_IgnoresInflight(_, _)
enqueueNeeded_IgnoresInflight(m, needed) ==
  IF needed = <<>> THEN m
  ELSE LET key == Head(needed)
           coord == parseChunkKey(key)
       IN  IF MapHas(m.loaded, key) \/ MapHas(m.queued, key) \/ MapHas(m.readyToApply, key)
           THEN enqueueNeeded_IgnoresInflight(m, Tail(needed))
           ELSE enqueueNeeded_IgnoresInflight(
                  [m EXCEPT !.queued = MapSet(m.queued, key,
                      [seedStr |-> m.seedStr[1], cx |-> coord.cx, cz |-> coord.cz])],
                  Tail(needed))

\* mutant: a needed key in readyToApply is enqueued again
RECURSIVE enqueueNeeded_IgnoresReadyToApply(_, _)
enqueueNeeded_IgnoresReadyToApply(m, needed) ==
  IF needed = <<>> THEN m
  ELSE LET key == Head(needed)
           coord == parseChunkKey(key)
       IN  IF MapHas(m.loaded, key) \/ MapHas(m.inflight, key) \/ MapHas(m.queued, key)
           THEN enqueueNeeded_IgnoresReadyToApply(m, Tail(needed))
           ELSE enqueueNeeded_IgnoresReadyToApply(
                  [m EXCEPT !.queued = MapSet(m.queued, key,
                      [seedStr |-> m.seedStr[1], cx |-> coord.cx, cz |-> coord.cz])],
                  Tail(needed))

RECURSIVE enqueueNeeded(_, _)
enqueueNeeded(m, needed) ==
  IF needed = <<>> THEN m
  ELSE LET key == Head(needed)
           coord == parseChunkKey(key)
       IN  IF MapHas(m.loaded, key) \/ MapHas(m.inflight, key)
              \/ MapHas(m.queued, key) \/ MapHas(m.readyToApply, key)
           THEN enqueueNeeded(m, Tail(needed))
           ELSE enqueueNeeded(
                  [m EXCEPT !.queued = MapSet(m.queued, key,
                      [seedStr |-> m.seedStr[1], cx |-> coord.cx, cz |-> coord.cz])],
                  Tail(needed))

refreshQueue(m, centerCx, centerCz) ==
  IF m.seedStr = <<>> THEN m
  ELSE Then(computeNeededChunkKeys(centerCx, centerCz, m.activeRadius), LAMBDA needed :
         LET isNeeded(key) == \E i \in 1..Len(needed) : needed[i] = key
             kept == SelectSeq(m.queued, LAMBDA e : isNeeded(e.k))
         IN  enqueueNeeded([m EXCEPT !.queued = kept], needed))

\* mutant: nothing is ever dispatched
dequeueRequest_Never(m) == [m |-> m, request |-> <<>>]

\* mutant: the entry inserted last is dispatched
dequeueRequest_TakesLast(m) ==
  IF m.queued = <<>> THEN [m |-> m, request |-> <<>>]
  ELSE LET last == m.queued[Len(m.queued)]
       IN  [m |-> [m EXCEPT !.queued = MapDelete(m.queued, last.k),
                            !.inflight = MapSet(m.inflight, last.k, last.v)],
            request |-> <<last.v>>]

\* returns the manager and the request (undefined: <<>>)
dequeueRequest(m) ==
  IF m.queued = <<>> THEN [m |-> m, request |-> <<>>]
  ELSE LET first == Head(m.queued)
       IN  [m |-> [m EXCEPT !.queued = MapDelete(m.queued, first.k),
                            !.inflight = MapSet(m.inflight, first.k, first.v)],
            request |-> <<first.v>>]

\* mutant: the first entry in radius stays the best one
applyScanStep_FirstWins(s, e, centerCx, centerCz, radius) ==
  LET coord == parseChunkKey(e.k)
      distance == chebyshevDistance(coord.cx, coord.cz, centerCx, centerCz)
  IN  IF ~isInRadius(coord.cx, coord.cz, centerCx, centerCz, radius)
      THEN [s EXCEPT !.ready = MapDelete(s.ready, e.k)]
      ELSE IF s.bestInfinite
           THEN [s EXCEPT !.best = <<e>>, !.bestInfinite = FALSE,
                          !.bestDistance = distance,
                          !.bestCx = coord.cx, !.bestCz = coord.cz]
           ELSE s

\* one iteration of the loop of dequeueApply over readyToApply
applyScanStep(s, e, centerCx, centerCz, radius) ==
  LET coord == parseChunkKey(e.k)
      distance == chebyshevDistance(coord.cx, coord.cz, centerCx, centerCz)
  IN  IF ~isInRadius(coord.cx, coord.cz, centerCx, centerCz, radius)
      THEN [s EXCEPT !.ready = MapDelete(s.ready, e.k)]
      ELSE IF \/ s.bestInfinite
              \/ distance < s.bestDistance
              \/ /\ distance = s.bestDistance
                 /\ \/ coord.cz < s.bestCz
                    \/ (coord.cz = s.bestCz /\ coord.cx < s.bestCx)
           THEN [s EXCEPT !.best = <<e>>, !.bestInfinite = FALSE,
                          !.bestDistance = distance,
                          !.bestCx = coord.cx, !.bestCz = coord.cz]
           ELSE s

RECURSIVE applyScan(_, _, _, _, _)
applyScan(s, entries, centerCx, centerCz, radius) ==
  IF entries = <<>> THEN s
  ELSE applyScan(applyScanStep(s, Head(entries), centerCx, centerCz, radius),
                 Tail(entries), centerCx, centerCz, radius)

\* mutant: every entry of readyToApply in radius is promoted to loaded
dequeueApply_ApplyAll(m, centerCx, centerCz) ==
  LET s0 == [best |-> <<>>, bestInfinite |-> TRUE, bestDistance |-> 0,
             bestCx |-> 0, bestCz |-> 0, ready |-> m.readyToApply]
      s == applyScan(s0, m.readyToApply, centerCx, centerCz, m.removeRadius)
  IN  IF s.best # <<>>
      THEN [m |-> [m EXCEPT !.readyToApply = <<>>, !.loaded = m.loaded \o s.ready],
            apply |-> <<s.best[1].v>>]
      ELSE [m |-> [m EXCEPT !.readyToApply = s.ready], apply |-> <<>>]

\* returns the manager and the response applied (undefined: <<>>)
dequeueApply(m, centerCx, centerCz) ==
  LET s0 == [best |-> <<>>, bestInfinite |-> TRUE, bestDistance |-> 0,
             bestCx |-> 0, bestCz |-> 0, ready |-> m.readyToApply]
      s == applyScan(s0, m.readyToApply, centerCx, centerCz, m.removeRadius)
  IN  IF s.best # <<>>
      THEN [m |-> [m EXCEPT !.readyToApply = MapDelete(s.ready, s.best[1].k),
                            !.loaded = MapSet(m.loaded, s.best[1].k, s.best[1].v)],
            apply |-> <<s.best[1].v>>]
      ELSE [m |-> [m EXCEPT !.readyToApply = s.ready], apply |-> <<>>]

\* tick reads playerX, playerZ, seedStr and workerResponses of params; the
\* other properties a caller passes (allowRequest, allowApply) are not read
tick(m, params) ==
  LET centerCx == worldToChunk(params.playerX, CHUNK_SIZE).chunk
      centerCz == worldToChunk(params.playerZ, CHUNK_SIZE).chunk
      pruned(m2) ==
        [m2 EXCEPT
           !.queued = pruneOutsideRemoveRadius(m2.queued, centerCx, centerCz, m2.removeRadius),
           !.inflight = pruneOutsideRemoveRadius(m2.inflight, centerCx, centerCz, m2.removeRadius),
           !.readyToApply = pruneOutsideRemoveRadius(m2.readyToApply, centerCx, centerCz, m2.removeRadius)]
  IN
  Then(resetForSeedIfNeeded(m, params.seedStr), LAMBDA r1 :
  Then(handleWorkerResponses(r1.m, params.workerResponses), LAMBDA m2 :
  Then(unloadOutsideRemoveRadius(pruned(m2), centerCx, centerCz), LAMBDA r4 :
  Then(dequeueRequest(refreshQueue(r4.m, centerCx, centerCz)), LAMBDA r6 :
  Then(dequeueApply(r6.m, centerCx, centerCz), LAMBDA r7 :
    [m |-> r7.m,
     result |-> [request |-> r6.request, apply |-> r7.apply,
                 unloadKeys |-> r1.unloadKeys \o r4.unloadKeys]])))))

(***************************************************************************)
(* destroyedVoxels.ts: DestroyedVoxelIndex = Map<x, Map<y, Set<z>>> is a   *)
(* function from the x present to a function from the y present to the set *)
(* of z.                                                                   *)
(***************************************************************************)
createDestroyedVoxelIndex == <<>>

\* map.set(k, v) on a Map kept as a function
FnSet(f, k, v) == [j \in DOMAIN f \cup {k} |-> IF j = k THEN v ELSE f[j]]

\* mutant: the z set of (x, y) is replaced, not extended
addDestroyedVoxel_ReplacesZ(index, x, y, z) ==
  LET byY == IF x \in DOMAIN index THEN index[x] ELSE <<>>
  IN  FnSet(index, x, FnSet(byY, y, {z}))

addDestroyedVoxel(index, x, y, z) ==
  LET byY == IF x \in DOMAIN index THEN index[x] ELSE <<>>
      byZ == IF y \in DOMAIN byY THEN byY[y] ELSE {}
  IN  FnSet(index, x, FnSet(byY, y, byZ \cup {z}))

hasDestroyedVoxel(index, x, y, z) ==
  /\ x \in DOMAIN index
  /\ y \in DOMAIN index[x]
  /\ z \in index[x][y]

clearDestroyedVoxelIndex(index) == <<>>

(***************************************************************************)
(* mesh.worker.ts: a request is a record with seedStr, cx, cz and, when    *)
(* the sender set them, destroyedDelta (a flat sequence of integers) and   *)
(* forceApply.                                                             *)
(***************************************************************************)
\* an optional field of a message: its value, or the default when unset
Field(message, name, default) ==
  IF name \in DOMAIN message THEN message[name] ELSE default

\* for (let i = 0; i + 2 < delta.length; i += 3) addDestroyedVoxel(...)
RECURSIVE applyDestroyedDeltaFrom(_, _, _)
applyDestroyedDeltaFrom(index, delta, i) ==
  IF i + 2 < Len(delta)
  THEN applyDestroyedDeltaFrom(
         addDestroyedVoxel(index, delta[i + 1], delta[i + 2], delta[i + 3]), delta, i + 3)
  ELSE index

applyDestroyedDelta(index, delta) ==
  IF delta = <<>> THEN index ELSE applyDestroyedDeltaFrom(index, delta, 0)

\* the voxels whose destruction the model observes in a mesh
ProbeVoxels == { <<0, 0, 0>>, <<0, 0, 1>>, <<0, 1, 0>>, <<1, 0, 0>>, <<40, 0, 0>> }

\* the voxels the player shoots: one on the west face of chunk (2, 2), one
\* in chunk (6, 6)
Shots == { <<32, 5, 40>>, <<100, 5, 100>> }

\* buildChunkVoxelsWithOverrides asks isDestroyed for every voxel of the
\* padded chunk (one voxel of halo on each side in x and z) and stores Air
\* for those it answers true: the probe voxels the chunk's buffer holds as
\* destroyed. isDestroyed is the worker's closure over its index,
\* (x, y, z) => hasDestroyedVoxel(destroyedVoxelIndex, x, y, z).
destroyedInChunk(cx, cz, index) ==
  { t \in ProbeVoxels \cup Shots :
      /\ cx * CHUNK_SIZE - 1 <= t[1] /\ t[1] <= cx * CHUNK_SIZE + CHUNK_SIZE
      /\ cz * CHUNK_SIZE - 1 <= t[3] /\ t[3] <= cz * CHUNK_SIZE + CHUNK_SIZE
      /\ hasDestroyedVoxel(index, t[1], t[2], t[3]) }

\* meshChunk(seedStr, cx, cz, isDestroyed): the payload of the chunk's mesh,
\* which is a function of the seed, the chunk and the destroyed voxels
meshChunk(seed, cx, cz, index) ==
  [key |-> chunkKey(cx, cz), cx |-> cx, cz |-> cz,
   mesh |-> <<seed, cx, cz, destroyedInChunk(cx, cz, index)>>]

\* workerGlobal.onmessage: the index after the request and the payload posted
onmessage(index, request) ==
  LET after == applyDestroyedDelta(index, Field(request, "destroyedDelta", <<>>))
      mesh == meshChunk(request.seedStr, request.cx, request.cz, after)
  IN  [index |-> after,
       payload |-> [key |-> mesh.key, cx |-> mesh.cx, cz |-> mesh.cz, mesh |-> mesh.mesh,
                    forceApply |-> Field(request, "forceApply", FALSE)]]

(***************************************************************************)
(* greedyMesh: voxels is the Uint8Array as a sequence (element i of the    *)
(* array is voxels[i + 1]), dims the padded dimensions [x, y, z]; the      *)
(* payload holds the four buffers as sequences. A colour component is kept *)
(* in hundredths (0.36 is 36).                                             *)
(***************************************************************************)
AXIS_U == <<1, 2, 0>>
AXIS_V == <<2, 0, 1>>

colorForVoxel(id) ==
  IF id = VOXEL_GRASS THEN <<36, 72, 31>>
  ELSE IF id = VOXEL_DIRT THEN <<49, 35, 22>>
  ELSE IF id = VOXEL_STONE THEN <<56, 56, 58>>
  ELSE <<0, 0, 0>>

indexOfPadded(px, py, pz, dims) == py * dims.x * dims.z + pz * dims.x + px

\* mutant: the halo is not read, a voxel outside the inner volume is Air
sample_IgnoresHalo(voxels, dims, lx, ly, lz) ==
  LET px == lx + 1
      py == ly + 1
      pz == lz + 1
  IN  IF px < 1 \/ py < 1 \/ pz < 1
         \/ px >= dims.x - 1 \/ py >= dims.y - 1 \/ pz >= dims.z - 1
      THEN VOXEL_AIR
      ELSE voxels[indexOfPadded(px, py, pz, dims) + 1]

sample(voxels, dims, lx, ly, lz) ==
  LET px == lx + 1
      py == ly + 1
      pz == lz + 1
  IN  IF px < 0 \/ py < 0 \/ pz < 0 \/ px >= dims.x \/ py >= dims.y \/ pz >= dims.z
      THEN VOXEL_AIR
      ELSE voxels[indexOfPadded(px, py, pz, dims) + 1]

EmptyPayload ==
  [positions |-> <<>>, normals |-> <<>>, colors |-> <<>>, indices |-> <<>>, quadCount |-> 0]

\* mutant: base is the length of positions, not the number of vertices
emitQuad_BaseIsLength(p, d, w, u, v, width, height, normalSign, voxelId) ==
  LET x0 == IF d = 0 THEN w ELSE IF d = 1 THEN v ELSE u
      y0 == IF d = 0 THEN u ELSE IF d = 1 THEN w ELSE v
      z0 == IF d = 0 THEN v ELSE IF d = 1 THEN u ELSE w
      dux == IF d = 2 THEN width ELSE 0
      duy == IF d = 0 THEN width ELSE 0
      duz == IF d = 1 THEN width ELSE 0
      dvx == IF d = 1 THEN height ELSE 0
      dvy == IF d = 2 THEN height ELSE 0
      dvz == IF d = 0 THEN height ELSE 0
      n == <<IF d = 0 THEN normalSign ELSE 0, IF d = 1 THEN normalSign ELSE 0,
             IF d = 2 THEN normalSign ELSE 0>>
      c == colorForVoxel(voxelId)
      base == Len(p.positions)
  IN  [positions |-> p.positions
         \o <<x0, y0, z0>> \o <<x0 + dux, y0 + duy, z0 + duz>>
         \o <<x0 + dux + dvx, y0 + duy + dvy, z0 + duz + dvz>>
         \o <<x0 + dvx, y0 + dvy, z0 + dvz>>,
       normals |-> p.normals \o n \o n \o n \o n,
       colors |-> p.colors \o c \o c \o c \o c,
       indices |-> p.indices
         \o (IF normalSign > 0
             THEN <<base, base + 1, base + 2, base, base + 2, base + 3>>
             ELSE <<base, base + 2, base + 1, base, base + 3, base + 2>>),
       quadCount |-> p.quadCount + 1]

\* emitQuad: the payload buffers after the quad's four vertices and two
\* triangles are pushed
emitQuad(p, d, w, u, v, width, height, normalSign, voxelId) ==
  LET x0 == IF d = 0 THEN w ELSE IF d = 1 THEN v ELSE u
      y0 == IF d = 0 THEN u ELSE IF d = 1 THEN w ELSE v
      z0 == IF d = 0 THEN v ELSE IF d = 1 THEN u ELSE w
      dux == IF d = 2 THEN width ELSE 0
      duy == IF d = 0 THEN width ELSE 0
      duz == IF d = 1 THEN width ELSE 0
      dvx == IF d = 1 THEN height ELSE 0
      dvy == IF d = 2 THEN height ELSE 0
      dvz == IF d = 0 THEN height ELSE 0
      n == <<IF d = 0 THEN normalSign ELSE 0, IF d = 1 THEN normalSign ELSE 0,
             IF d = 2 THEN normalSign ELSE 0>>
      c == colorForVoxel(voxelId)
      base == Len(p.positions) \div 3
  IN  [positions |-> p.positions
         \o <<x0, y0, z0>> \o <<x0 + dux, y0 + duy, z0 + duz>>
         \o <<x0 + dux + dvx, y0 + duy + dvy, z0 + duz + dvz>>
         \o <<x0 + dvx, y0 + dvy, z0 + dvz>>,
       normals |-> p.normals \o n \o n \o n \o n,
       colors |-> p.colors \o c \o c \o c \o c,
       indices |-> p.indices
         \o (IF normalSign > 0
             THEN <<base, base + 1, base + 2, base, base + 2, base + 3>>
             ELSE <<base, base + 2, base + 1, base, base + 3, base + 2>>),
       quadCount |-> p.quadCount + 1]

\* the mask entry of cell (u, v) of slice w of axis d: 0, the id of the
\* solid voxel below the plane, or minus the id of the one above it
maskValue(voxels, dims, d, w, u, v) ==
  LET a == IF d = 0 THEN sample(voxels, dims, w - 1, u, v)
           ELSE IF d = 1 THEN sample(voxels, dims, v, w - 1, u)
           ELSE sample(voxels, dims, u, v, w - 1)
      b == IF d = 0 THEN sample(voxels, dims, w, u, v)
           ELSE IF d = 1 THEN sample(voxels, dims, v, w, u)
           ELSE sample(voxels, dims, u, v, w)
      aSolid == a # VOXEL_AIR
      bSolid == b # VOXEL_AIR
  IN  IF aSolid = bSolid THEN 0 ELSE IF aSolid THEN a ELSE -b

\* the mask of a slice: entry maskIndex = v * sizeU + u is mask[maskIndex + 1]
sliceMask(voxels, dims, d, w, sizeU, sizeV) ==
  [i \in 1..(sizeU * sizeV) |->
     maskValue(voxels, dims, d, w, (i - 1) % sizeU, (i - 1) \div sizeU)]

\* mutant: a quad is never widened
growWidth_Never(mask, sizeU, u, start, signedVoxel, width) == width

RECURSIVE growWidth(_, _, _, _, _, _)
growWidth(mask, sizeU, u, start, signedVoxel, width) ==
  IF u + width < sizeU /\ mask[start + width + 1] = signedVoxel
  THEN growWidth(mask, sizeU, u, start, signedVoxel, width + 1)
  ELSE width

RECURSIVE growHeight(_, _, _, _, _, _, _, _)
growHeight(mask, sizeU, sizeV, u, v, width, signedVoxel, height) ==
  IF /\ v + height < sizeV
     /\ \A k \in 0..(width - 1) : mask[(v + height) * sizeU + u + k + 1] = signedVoxel
  THEN growHeight(mask, sizeU, sizeV, u, v, width, signedVoxel, height + 1)
  ELSE height

\* the mask with the rectangle of a quad zeroed
clearRect(mask, sizeU, u, v, width, height) ==
  [i \in 1..Len(mask) |->
     IF /\ (i - 1) % sizeU >= u /\ (i - 1) % sizeU < u + width
        /\ (i - 1) \div sizeU >= v /\ (i - 1) \div sizeU < v + height
     THEN 0 ELSE mask[i]]

\* the rectangle merge of one slice, from cell (u, v) on: the payload after
\* the quads of the rest of the slice are emitted
RECURSIVE scanSlice(_, _, _, _, _, _, _, _)
scanSlice(p, mask, d, w, sizeU, sizeV, v, u) ==
  IF v >= sizeV THEN p
  ELSE IF u >= sizeU THEN scanSlice(p, mask, d, w, sizeU, sizeV, v + 1, 0)
  ELSE LET start == v * sizeU + u
           signedVoxel == mask[start + 1]
       IN  IF signedVoxel = 0 THEN scanSlice(p, mask, d, w, sizeU, sizeV, v, u + 1)
           ELSE LET width == growWidth(mask, sizeU, u, start, signedVoxel, 1)
                    height == growHeight(mask, sizeU, sizeV, u, v, width, signedVoxel, 1)
                    normalSign == IF signedVoxel > 0 THEN 1 ELSE -1
                    voxelId == Abs(signedVoxel)
                IN  Then(emitQuad(p, d, w, u, v, width, height, normalSign, voxelId),
                      LAMBDA emitted :
                    Then(clearRect(mask, sizeU, u, v, width, height), LAMBDA cleared :
                      scanSlice(emitted, cleared, d, w, sizeU, sizeV, v, u + width)))

\* the slices w..sizeD of axis d
RECURSIVE meshSlices(_, _, _, _, _)
meshSlices(p, voxels, dims, d, w) ==
  LET inner == <<dims.x - 2, dims.y - 2, dims.z - 2>>
      sizeD == inner[d + 1]
      sizeU == inner[AXIS_U[d + 1] + 1]
      sizeV == inner[AXIS_V[d + 1] + 1]
  IN  IF w > sizeD THEN p
      ELSE Then(sliceMask(voxels, dims, d, w, sizeU, sizeV), LAMBDA mask :
           Then(scanSlice(p, mask, d, w, sizeU, sizeV, 0, 0), LAMBDA scanned :
             meshSlices(scanned, voxels, dims, d, w + 1)))

\* greedyMesh(voxels, dims) for dims >= 3 on all axes (it throws otherwise)
greedyMesh(voxels, dims) ==
  LET p == meshSlices(meshSlices(meshSlices(EmptyPayload, voxels, dims, 0, 0),
                                 voxels, dims, 1, 0), voxels, dims, 2, 0)
  IN  [positions |-> p.positions, normals |-> p.normals, colors |-> p.colors,
       indices |-> p.indices, quadCount |-> p.quadCount, indexCount |-> Len(p.indices)]

(***************************************************************************)
(* The worker boundary of the manager on its own: every request a tick     *)
(* returns is posted to a worker that was sent no destroyedDelta.          *)
(***************************************************************************)
workerOnMessage(request) == onmessage(createDestroyedVoxelIndex, request).payload

\* a response nobody asked for
Unsolicited == { workerOnMessage([seedStr |-> "demo", cx |-> 1, cz |-> 1]) }

\* the responses a caller may hand over: the answer to any request posted so
\* far, any number of times and in any order, and the unsolicited one
Responses == { workerOnMessage(q) : q \in posted } \cup Unsolicited

\* workerResponses: no response, one, or two in either order (a response
\* twice included)
Batches ==
  { <<>> } \cup { <<a>> : a \in Responses } \cup { <<a, b>> : a \in Responses, b \in Responses }

TickParams ==
  [playerX : { p[1] : p \in Positions }, playerZ : { p[2] : p \in Positions },
   seedStr : Seeds, workerResponses : Batches,
   allowRequest : BOOLEAN, allowApply : BOOLEAN]

NoResult == [request |-> <<>>, apply |-> <<>>, unloadKeys |-> <<>>]

(***************************************************************************)
(* State machine                                                           *)
(***************************************************************************)
\* new ChunkManager({ activeRadius, removeRadius, maxInflight }): the
\* constructor throws when removeRadius < activeRadius and reads no other
\* option
NewManager(options) ==
  /\ options[2] >= options[1]
  /\ activeRadius = Max(0, options[1])
  /\ removeRadius = Max(0, options[2])
  /\ loaded = <<>>
  /\ inflight = <<>>
  /\ queued = <<>>
  /\ readyToApply = <<>>
  /\ seedStr = <<>>
  /\ call = [op |-> "new", playerX |-> 0, playerZ |-> 0, seedStr |-> "",
             supplied |-> 0, response |-> <<>>]
  /\ result = NoResult
  /\ posted = {}
  /\ calls = 0

InitManager == \E c \in Configs : NewManager(c)

\* the parts of the state a specification leaves alone
IdleNeeded == neededArgs = <<0, 0, 0>> /\ neededKeys = <<>>

IdleGame ==
  /\ chunks = <<>>
  /\ workerResponsesRef = <<>>
  /\ forceApplyResponsesRef = <<>>
  /\ workerInbox = <<>>
  /\ destroyedVoxelIndexRef = <<>>
  /\ seedProp = "demo"

IdleWorker ==
  /\ destroyedVoxelIndex = <<>>
  /\ deltasReceived = {}
  /\ workerPosted = <<>>
  /\ handled = 0

IdleMath == mathArgs = <<0, 1>> /\ mathResult = <<>>

IdleMesh == meshInput = [voxels |-> <<>>, dims |-> [x |-> 0, y |-> 0, z |-> 0]] /\ meshResult = <<>>

IdleBatch == suppliedResponses = <<>>

NoEvent == [seedStr |-> "", x |-> 0, z |-> 0, hit |-> FALSE, evicted |-> <<>>,
            evictedAt |-> 0, evictedRowAt |-> 0]

IdleCache ==
  /\ noiseCache = <<>>
  /\ cacheClock = 0
  /\ cacheInserted = {}
  /\ cacheRows = {}
  /\ cacheEvent = NoEvent

IdleSolid == solidInput = <<>> /\ solidResult = <<>>

IdleSeam == seamInput = <<>> /\ seamMeshes = <<>>

IdleExtra == IdleBatch /\ IdleCache /\ IdleSolid /\ IdleSeam

Init ==
  /\ InitManager
  /\ IdleNeeded /\ IdleGame /\ IdleWorker /\ IdleMath /\ IdleMesh /\ IdleExtra

Install(m) ==
  /\ loaded' = m.loaded
  /\ inflight' = m.inflight
  /\ queued' = m.queued
  /\ readyToApply' = m.readyToApply
  /\ seedStr' = m.seedStr
  /\ UNCHANGED <<activeRadius, removeRadius>>

\* manager.tick({ playerX, playerZ, seedStr, workerResponses }); call keeps
\* the arguments (of workerResponses its length), result what tick returned
TickOf(p, seed, batch) ==
  LET params == [playerX |-> p[1], playerZ |-> p[2], seedStr |-> seed,
                 workerResponses |-> batch,
                 allowRequest |-> TRUE, allowApply |-> TRUE]
  IN  \E r \in {tick(Manager, params)} :
        /\ Install(r.m)
        /\ call' = [op |-> "tick", playerX |-> p[1], playerZ |-> p[2], seedStr |-> seed,
                    supplied |-> Len(batch), response |-> <<>>]
        /\ result' = r.result
        /\ posted' = posted \cup { r.result.request[i] : i \in 1..Len(r.result.request) }
        /\ calls' = calls + 1
        /\ UNCHANGED <<neededVars, gameVars, workerVars, mathVars, meshVars>>

Tick ==
  /\ calls < MaxCalls
  /\ \E p \in Positions, seed \in Seeds, batch \in Batches : TickOf(p, seed, batch)
  /\ UNCHANGED extraVars

\* manager.handleWorkerResponse(response), called from outside tick
HandleWorkerResponse ==
  /\ calls < MaxCalls
  /\ \E response \in Responses :
       /\ Install(handleWorkerResponse(Manager, response))
       /\ call' = [op |-> "handleWorkerResponse", playerX |-> 0, playerZ |-> 0,
                   seedStr |-> "", supplied |-> 1, response |-> <<response>>]
  /\ UNCHANGED <<result, posted>>
  /\ calls' = calls + 1
  /\ UNCHANGED <<neededVars, gameVars, workerVars, mathVars, meshVars, extraVars>>

Next == Tick \/ HandleWorkerResponse

Spec == Init /\ [][Next]_vars

(***************************************************************************)
(* Game.tsx: the frame loop of SceneContents, the worker's replies and the *)
(* player's shots, around a ChunkManager and one mesh worker.              *)
(***************************************************************************)
\* new ChunkManager({ activeRadius: 1, removeRadius: 1, maxInflight: 1 })
GameConfig == <<1, 1>>

\* playerPositionRef: where the player starts and a place one chunk east
GamePositions == { <<32, 32>>, <<48, 32>> }


\* dequeueBatch(queue, max): the batch spliced off the front, and the rest
dequeueBatch(queue, max) ==
  LET count == IF max <= Len(queue) THEN max ELSE Len(queue)
  IN  [batch |-> SubSeq(queue, 1, count), rest |-> SubSeq(queue, count + 1, Len(queue))]

\* queue.push(item), then the oldest entries beyond max are spliced off
pushBounded(queue, item, max) ==
  LET pushed == Append(queue, item)
  IN  IF Len(pushed) > max THEN SubSeq(pushed, Len(pushed) - max + 1, Len(pushed))
      ELSE pushed

\* setChunks for the force-apply responses of a frame
RECURSIVE setForceApplied(_, _)
setForceApplied(map, responses) ==
  IF responses = <<>> THEN map
  ELSE setForceApplied(MapSet(map, Head(responses).key, Head(responses)), Tail(responses))

RECURSIVE deleteKeys(_, _)
deleteKeys(map, keys) ==
  IF keys = <<>> THEN map ELSE deleteKeys(MapDelete(map, Head(keys)), Tail(keys))

\* setChunks for the apply and the unloadKeys of a frame
setAppliedAndUnloaded(map, apply, unloadKeys) ==
  LET applied == IF apply = <<>> THEN map ELSE MapSet(map, apply[1].key, apply[1])
  IN  deleteKeys(applied, unloadKeys)

\* Game at mount: the manager of GameConfig, nothing rendered, no message
InitGame ==
  /\ NewManager(GameConfig)
  /\ IdleGame /\ IdleWorker /\ IdleNeeded /\ IdleMath /\ IdleMesh /\ IdleExtra

\* useFrame: one frame of SceneContents (calls counts the events of the game)
Frame ==
  /\ calls < MaxGameSteps
  /\ \E p \in GamePositions, allowRequest \in BOOLEAN, allowApply \in BOOLEAN :
       LET workerResponses == dequeueBatch(workerResponsesRef, MAX_WORKER_RESPONSES_PER_FRAME)
           forceApplyResponses ==
             dequeueBatch(forceApplyResponsesRef, MAX_FORCE_APPLY_RESPONSES_PER_FRAME)
           params == [playerX |-> p[1], playerZ |-> p[2], seedStr |-> seedProp,
                      workerResponses |-> workerResponses.batch,
                      allowRequest |-> allowRequest, allowApply |-> allowApply]
       IN  \E r \in {tick(Manager, params)} :
           /\ Install(r.m)
           /\ call' = [op |-> "tick", playerX |-> p[1], playerZ |-> p[2],
                       seedStr |-> seedProp,
                       supplied |-> Len(workerResponses.batch), response |-> <<>>]
           /\ result' = r.result
           /\ posted' = posted \cup { r.result.request[i] : i \in 1..Len(r.result.request) }
           /\ workerResponsesRef' = workerResponses.rest
           /\ forceApplyResponsesRef' = forceApplyResponses.rest
           /\ workerInbox' =
                IF r.result.request = <<>> THEN workerInbox
                ELSE Append(workerInbox,
                       [seedStr |-> r.result.request[1].seedStr, cx |-> r.result.request[1].cx,
                        cz |-> r.result.request[1].cz, forceApply |-> FALSE])
           /\ chunks' = setAppliedAndUnloaded(
                          setForceApplied(chunks, forceApplyResponses.batch),
                          r.result.apply, r.result.unloadKeys)
  /\ calls' = calls + 1
  /\ UNCHANGED <<destroyedVoxelIndexRef, seedProp, workerVars, neededVars, mathVars, meshVars, extraVars>>

\* the triples of a destroyedDelta
TriplesOf(delta) ==
  { <<delta[3 * j - 2], delta[3 * j - 1], delta[3 * j]>> : j \in 1..(Len(delta) \div 3) }

\* the worker answers the oldest message sent to it, and worker.onmessage
\* of Game files the answer
WorkerReply ==
  /\ calls < MaxGameSteps
  /\ workerInbox # <<>>
  /\ \E r \in {onmessage(destroyedVoxelIndex, Head(workerInbox))} :
       /\ destroyedVoxelIndex' = r.index
       /\ workerPosted' = <<r.payload>>
       /\ handled' = handled + 1
       /\ IF r.payload.forceApply
          THEN /\ forceApplyResponsesRef' =
                    pushBounded(forceApplyResponsesRef, r.payload,
                                MAX_PENDING_FORCE_APPLY_RESPONSES)
               /\ UNCHANGED workerResponsesRef
          ELSE /\ workerResponsesRef' =
                    pushBounded(workerResponsesRef, r.payload, MAX_PENDING_WORKER_RESPONSES)
               /\ UNCHANGED forceApplyResponsesRef
  /\ deltasReceived' =
       deltasReceived \cup TriplesOf(Field(Head(workerInbox), "destroyedDelta", <<>>))
  /\ workerInbox' = Tail(workerInbox)
  /\ calls' = calls + 1
  /\ UNCHANGED <<activeRadius, removeRadius, loaded, inflight, queued, readyToApply,
                 seedStr, call, result, posted>>
  /\ UNCHANGED <<chunks, destroyedVoxelIndexRef, seedProp, neededVars, mathVars, meshVars, extraVars>>

\* requestChunkRemesh(cx, cz, destroyedDelta): the message posted
requestChunkRemesh(cx, cz, destroyedDelta) ==
  IF destroyedDelta = <<>>
  THEN [seedStr |-> seedProp, cx |-> cx, cz |-> cz, forceApply |-> TRUE]
  ELSE [seedStr |-> seedProp, cx |-> cx, cz |-> cz, destroyedDelta |-> destroyedDelta,
        forceApply |-> TRUE]

\* onShootVoxel(x, y, z): the messages posted, in order
onShootVoxel(x, y, z) ==
  LET centerCx == worldToChunk(x, CHUNK_SIZE).chunk
      centerCz == worldToChunk(z, CHUNK_SIZE).chunk
      localX == x - centerCx * CHUNK_SIZE
      localZ == z - centerCz * CHUNK_SIZE
  IN  <<requestChunkRemesh(centerCx, centerCz, <<x, y, z>>)>>
      \o (IF localX = 0 THEN <<requestChunkRemesh(centerCx - 1, centerCz, <<>>)>>
          ELSE IF localX = CHUNK_SIZE - 1
          THEN <<requestChunkRemesh(centerCx + 1, centerCz, <<>>)>>
          ELSE <<>>)
      \o (IF localZ = 0 THEN <<requestChunkRemesh(centerCx, centerCz - 1, <<>>)>>
          ELSE IF localZ = CHUNK_SIZE - 1
          THEN <<requestChunkRemesh(centerCx, centerCz + 1, <<>>)>>
          ELSE <<>>)

\* the player shoots a voxel that is not destroyed yet
ShootVoxel ==
  /\ calls < MaxGameSteps
  /\ \E shot \in Shots :
       /\ ~hasDestroyedVoxel(destroyedVoxelIndexRef, shot[1], shot[2], shot[3])
       /\ destroyedVoxelIndexRef' =
            addDestroyedVoxel(destroyedVoxelIndexRef, shot[1], shot[2], shot[3])
       /\ workerInbox' = workerInbox \o onShootVoxel(shot[1], shot[2], shot[3])
  /\ calls' = calls + 1
  /\ UNCHANGED <<activeRadius, removeRadius, loaded, inflight, queued, readyToApply,
                 seedStr, call, result, posted>>
  /\ UNCHANGED <<chunks, workerResponsesRef, forceApplyResponsesRef, seedProp,
                 workerVars, neededVars, mathVars, meshVars, extraVars>>

\* the seedStr prop changes: the effect clears the main thread's index
ChangeSeed ==
  /\ calls < MaxGameSteps
  /\ \E seed \in Seeds :
       /\ seed # seedProp
       /\ seedProp' = seed
  /\ destroyedVoxelIndexRef' = clearDestroyedVoxelIndex(destroyedVoxelIndexRef)
  /\ calls' = calls + 1
  /\ UNCHANGED <<activeRadius, removeRadius, loaded, inflight, queued, readyToApply,
                 seedStr, call, result, posted>>
  /\ UNCHANGED <<chunks, workerResponsesRef, forceApplyResponsesRef,
                 workerInbox, workerVars, neededVars, mathVars, meshVars, extraVars>>

NextGame == Frame \/ WorkerReply \/ ShootVoxel \/ ChangeSeed

SpecGame == InitGame /\ [][NextGame]_vars

(***************************************************************************)
(* One mesh worker on its own, sent any sequence of requests.              *)
(***************************************************************************)
\* destroyedDelta of a request: unset, one triple, two triples, or a triple
\* and an incomplete one
Deltas ==
  { <<>> }
    \cup { <<t[1], t[2], t[3]>> : t \in ProbeVoxels }
    \cup { <<t[1], t[2], t[3], u[1], u[2], u[3]>> : t \in ProbeVoxels, u \in ProbeVoxels }
    \cup { <<t[1], t[2], t[3], t[1], t[2]>> : t \in ProbeVoxels }

\* the chunks meshed: the one of the probe voxels around the origin and the
\* one of the probe voxel at x = 40
WorkerChunks == { <<0, 0>>, <<2, 0>> }

WorkerRequests ==
  { [seedStr |-> "demo", cx |-> c[1], cz |-> c[2], forceApply |-> TRUE] : c \in WorkerChunks }
    \cup { [seedStr |-> "demo", cx |-> c[1], cz |-> c[2], destroyedDelta |-> d,
            forceApply |-> TRUE] : c \in WorkerChunks, d \in Deltas \ { <<>> } }

InitWorker ==
  /\ NewManager(GameConfig)
  /\ IdleWorker /\ IdleGame /\ IdleNeeded /\ IdleMath /\ IdleMesh /\ IdleExtra

\* workerGlobal.onmessage({ data: request })
WorkerOnMessage ==
  /\ handled < MaxRequests
  /\ \E request \in WorkerRequests :
       \E r \in {onmessage(destroyedVoxelIndex, request)} :
         /\ destroyedVoxelIndex' = r.index
         /\ workerPosted' = <<r.payload>>
         /\ deltasReceived' =
              deltasReceived \cup TriplesOf(Field(request, "destroyedDelta", <<>>))
  /\ handled' = handled + 1
  /\ UNCHANGED <<managerVars, gameVars, neededVars, mathVars, meshVars, extraVars>>

NextWorker == WorkerOnMessage

SpecWorker == InitWorker /\ [][NextWorker]_vars

(***************************************************************************)
(* computeNeededChunkKeys called on its own                                *)
(***************************************************************************)
InitNeeded ==
  /\ InitManager
  /\ neededArgs \in (-MaxCenter..MaxCenter) \X (-MaxCenter..MaxCenter) \X (0..MaxRadius)
  /\ neededKeys = <<>>
  /\ IdleGame /\ IdleWorker /\ IdleMath /\ IdleMesh /\ IdleExtra

ComputeNeeded ==
  /\ neededKeys = <<>>
  /\ neededKeys' = computeNeededChunkKeys(neededArgs[1], neededArgs[2], neededArgs[3])
  /\ UNCHANGED <<managerVars, neededArgs, gameVars, workerVars, mathVars, meshVars, extraVars>>

NextNeeded == ComputeNeeded

SpecNeeded == InitNeeded /\ [][NextNeeded]_vars

(***************************************************************************)
(* floorDiv, floorMod and worldToChunk called on their own: mathArgs is    *)
(* <<a, b>> with b > 0 (the functions throw for b <= 0).                   *)
(***************************************************************************)
InitMath ==
  /\ NewManager(GameConfig)
  /\ mathArgs \in (-MaxAbs..MaxAbs) \X (1..MaxDivisor)
  /\ mathResult = <<>>
  /\ IdleGame /\ IdleWorker /\ IdleNeeded /\ IdleMesh /\ IdleExtra

ComputeMath ==
  /\ mathResult = <<>>
  /\ mathResult' = <<[div |-> floorDiv(mathArgs[1], mathArgs[2]),
                      mod |-> floorMod(mathArgs[1], mathArgs[2]),
                      coord |-> worldToChunk(mathArgs[1], mathArgs[2])]>>
  /\ UNCHANGED <<managerVars, gameVars, workerVars, neededVars, mathArgs, meshVars, extraVars>>

NextMath == ComputeMath

SpecMath == InitMath /\ [][NextMath]_vars

(***************************************************************************)
(* greedyMesh called on its own, on small padded buffers.                  *)
(***************************************************************************)
\* padded dimensions: inner volumes of 1x1x1, 3x1x3 and 2x2x2
MeshDims == { [x |-> 3, y |-> 3, z |-> 3], [x |-> 5, y |-> 3, z |-> 5],
              [x |-> 4, y |-> 4, z |-> 4] }

InnerCells(dims) == (0..(dims.x - 3)) \X (0..(dims.y - 3)) \X (0..(dims.z - 3))

\* the solid inner voxels: up to MaxSolid of them, or all of them
SolidSets(dims) ==
  { cells \in SUBSET InnerCells(dims) : Cardinality(cells) <= MaxSolid }
    \cup { InnerCells(dims) }

\* the material of the solid inner voxels: stone, or grass and stone in
\* stripes along x
MaterialSchemes == { "stone", "striped" }

\* the halo: Air, one stone voxel west of inner voxel (0, 0, 0), or stone
HaloSchemes == { "air", "west", "stone" }

\* the buffer with these inner voxels solid: x is fastest, then z, then y
voxelsOf(dims, solid, materials, halo) ==
  [i \in 1..(dims.x * dims.y * dims.z) |->
     LET px == (i - 1) % dims.x
         pz == ((i - 1) \div dims.x) % dims.z
         py == (i - 1) \div (dims.x * dims.z)
         isInner == /\ px >= 1 /\ px <= dims.x - 2
                    /\ py >= 1 /\ py <= dims.y - 2
                    /\ pz >= 1 /\ pz <= dims.z - 2
     IN  IF isInner
         THEN IF <<px - 1, py - 1, pz - 1>> \in solid
              THEN IF materials = "striped" /\ px % 2 = 1 THEN VOXEL_GRASS ELSE VOXEL_STONE
              ELSE VOXEL_AIR
         ELSE IF halo = "stone" THEN VOXEL_STONE
         ELSE IF halo = "west" /\ px = 0 /\ py = 1 /\ pz = 1 THEN VOXEL_STONE
         ELSE VOXEL_AIR]

MeshInputs ==
  UNION { { [voxels |-> voxelsOf(dims, solid, materials, halo), dims |-> dims] :
              solid \in SolidSets(dims), materials \in MaterialSchemes, halo \in HaloSchemes } :
          dims \in MeshDims }

InitMesh ==
  /\ NewManager(GameConfig)
  /\ meshInput \in MeshInputs
  /\ meshResult = <<>>
  /\ IdleGame /\ IdleWorker /\ IdleNeeded /\ IdleMath /\ IdleExtra

ComputeMesh ==
  /\ meshResult = <<>>
  /\ meshResult' = <<greedyMesh(meshInput.voxels, meshInput.dims)>>
  /\ UNCHANGED <<managerVars, gameVars, workerVars, neededVars, mathVars, meshInput, extraVars>>

NextMesh == ComputeMesh

SpecMesh == InitMesh /\ [][NextMesh]_vars

(***************************************************************************)
(* getVoxel.ts: the surface-profile cache                                  *)
(***************************************************************************)
\* the cap of a surfaceCache, 60000 in the source, here the bound CacheLimit
SURFACE_CACHE_LIMIT == CacheLimit

\* the noise cache with an entry for the seed
getNoiseCache(cache, seed) ==
  IF MapHas(cache, seed) THEN cache
  ELSE MapSet(cache, seed, [surfaceCache |-> <<>>, surfaceCacheSize |-> 0])

\* the profile computed from the noise functions of the seed: all that
\* matters here is which seed and column it belongs to
computeProfile(seed, x, z) == [seedStr |-> seed, x |-> x, z |-> z]

\* mutant: the eviction skips the first row when it is not the only one
evictFirst_SecondRow(entry) ==
  IF entry.surfaceCacheSize >= SURFACE_CACHE_LIMIT /\ entry.surfaceCache # <<>>
  THEN LET xEntry == entry.surfaceCache[IF Len(entry.surfaceCache) > 1 THEN 2 ELSE 1]
           firstZ == Head(xEntry.v).k
           zMap == MapDelete(xEntry.v, firstZ)
       IN  [entry |-> [surfaceCache |->
                         IF zMap = <<>> THEN MapDelete(entry.surfaceCache, xEntry.k)
                         ELSE MapSet(entry.surfaceCache, xEntry.k, zMap),
                       surfaceCacheSize |-> entry.surfaceCacheSize - 1],
            evicted |-> <<[x |-> xEntry.k, z |-> firstZ]>>]
  ELSE [entry |-> entry, evicted |-> <<>>]

\* the eviction of getSurfaceProfile: at the cap, the first z of the first
\* row is deleted, and the row with it once it is empty (rows are never
\* empty, so firstZ is defined)
evictFirst(entry) ==
  IF entry.surfaceCacheSize >= SURFACE_CACHE_LIMIT /\ entry.surfaceCache # <<>>
  THEN LET xEntry == Head(entry.surfaceCache)
           firstZ == Head(xEntry.v).k
           zMap == MapDelete(xEntry.v, firstZ)
       IN  [entry |-> [surfaceCache |->
                         IF zMap = <<>> THEN MapDelete(entry.surfaceCache, xEntry.k)
                         ELSE MapSet(entry.surfaceCache, xEntry.k, zMap),
                       surfaceCacheSize |-> entry.surfaceCacheSize - 1],
            evicted |-> <<[x |-> xEntry.k, z |-> firstZ]>>]
  ELSE [entry |-> entry, evicted |-> <<>>]

\* returns the entry of the seed after the lookup, the profile, whether it
\* came from the cache, and the column evicted (none: <<>>)
getSurfaceProfile(entry, seed, x, z) ==
  IF MapHas(entry.surfaceCache, x) /\ MapHas(MapGet(entry.surfaceCache, x), z)
  THEN [entry |-> entry, profile |-> MapGet(MapGet(entry.surfaceCache, x), z),
        hit |-> TRUE, evicted |-> <<>>]
  ELSE Then(evictFirst(entry), LAMBDA e :
         LET profile == computeProfile(seed, x, z)
             targetRow == IF MapHas(e.entry.surfaceCache, x)
                          THEN MapGet(e.entry.surfaceCache, x) ELSE <<>>
             size == IF MapHas(targetRow, z) THEN e.entry.surfaceCacheSize
                     ELSE e.entry.surfaceCacheSize + 1
         IN  [entry |-> [surfaceCache |->
                           MapSet(e.entry.surfaceCache, x, MapSet(targetRow, z, profile)),
                         surfaceCacheSize |-> size],
              profile |-> profile, hit |-> FALSE, evicted |-> e.evicted])

\* the lookups made: every column of a 2 x 3 block under one seed, one
\* column under another seed
CacheLookups ==
  { <<"demo", x, z>> : x \in 0..1, z \in 0..2 } \cup { <<"other", 0, 0>> }

InitCache ==
  /\ NewManager(GameConfig)
  /\ IdleNeeded /\ IdleGame /\ IdleWorker /\ IdleMath /\ IdleMesh /\ IdleExtra

\* getSurfaceProfile(seedStr, x, z); cacheInserted and cacheRows are updated
\* from what the lookup reports, not from the order of the maps
LookupSurfaceProfile ==
  /\ cacheClock < MaxLookups
  /\ \E l \in CacheLookups :
       LET cache == getNoiseCache(noiseCache, l[1])
       IN  \E r \in {getSurfaceProfile(MapGet(cache, l[1]), l[1], l[2], l[3])} :
             LET kept == { c \in cacheInserted :
                             ~(c.seedStr = l[1] /\ <<[x |-> c.x, z |-> c.z]>> = r.evicted) }
                 now == IF r.hit THEN kept
                        ELSE kept \cup { [seedStr |-> l[1], x |-> l[2], z |-> l[3],
                                          at |-> cacheClock + 1] }
                 rows == { w \in cacheRows :
                             \E c \in kept : c.seedStr = w.seedStr /\ c.x = w.x }
             IN  /\ noiseCache' = MapSet(cache, l[1], r.entry)
                 /\ cacheInserted' = now
                 /\ cacheRows' =
                      IF \E w \in rows : w.seedStr = l[1] /\ w.x = l[2] THEN rows
                      ELSE rows \cup { [seedStr |-> l[1], x |-> l[2], at |-> cacheClock + 1] }
                 /\ cacheEvent' =
                      [seedStr |-> l[1], x |-> l[2], z |-> l[3],
                       hit |-> r.hit, evicted |-> r.evicted,
                       evictedAt |->
                         IF r.evicted = <<>> THEN 0
                         ELSE (CHOOSE c \in cacheInserted :
                                 c.seedStr = l[1] /\ <<[x |-> c.x, z |-> c.z]>> = r.evicted).at,
                       evictedRowAt |->
                         IF r.evicted = <<>> THEN 0
                         ELSE (CHOOSE w \in cacheRows :
                                 w.seedStr = l[1] /\ w.x = r.evicted[1].x).at]
  /\ cacheClock' = cacheClock + 1
  /\ UNCHANGED <<managerVars, neededVars, gameVars, workerVars, mathVars, meshVars, batchVars,
                  solidVars, seamVars>>

NextCache == LookupSurfaceProfile

SpecCache == InitCache /\ [][NextCache]_vars

(***************************************************************************)
(* tick with its workerResponses kept                                      *)
(***************************************************************************)
InitBatch ==
  /\ NewManager(GameConfig)
  /\ IdleNeeded /\ IdleGame /\ IdleWorker /\ IdleMath /\ IdleMesh /\ IdleExtra

\* the player stands in chunk (0, 0) or in chunk (1, -1)
BatchPositions == { <<0, 0>>, <<16, -1>> }

TickBatch ==
  /\ calls < MaxCalls
  /\ \E p \in BatchPositions, seed \in Seeds, batch \in Batches :
       /\ TickOf(p, seed, batch)
       /\ suppliedResponses' = batch
  /\ UNCHANGED <<cacheVars, solidVars, seamVars>>

NextBatch == TickBatch

SpecBatch == InitBatch /\ [][NextBatch]_vars

(***************************************************************************)
(* The manager with a player that stays where it is under one seed, and a *)
(* worker that answers every request: workerInbox holds the requests the  *)
(* worker has not answered, workerResponsesRef the responses no tick was   *)
(* given yet                                                               *)
(***************************************************************************)
SteadyPosition == <<16, -1>>

SteadySeed == "demo"

InitSteady ==
  /\ InitManager
  /\ IdleNeeded /\ IdleGame /\ IdleWorker /\ IdleMath /\ IdleMesh /\ IdleExtra

\* tick with the first count responses that arrived
SteadyTick(count) ==
  LET workerResponses == dequeueBatch(workerResponsesRef, count)
      params == [playerX |-> SteadyPosition[1], playerZ |-> SteadyPosition[2],
                 seedStr |-> SteadySeed, workerResponses |-> workerResponses.batch,
                 allowRequest |-> TRUE, allowApply |-> TRUE]
  IN  \E r \in {tick(Manager, params)} :
        /\ Install(r.m)
        /\ call' = [op |-> "tick", playerX |-> SteadyPosition[1],
                    playerZ |-> SteadyPosition[2], seedStr |-> SteadySeed,
                    supplied |-> Len(workerResponses.batch), response |-> <<>>]
        /\ result' = r.result
        /\ posted' = posted \cup { r.result.request[i] : i \in 1..Len(r.result.request) }
        /\ workerResponsesRef' = workerResponses.rest
        /\ workerInbox' = workerInbox \o r.result.request
        /\ UNCHANGED <<calls, chunks, forceApplyResponsesRef, destroyedVoxelIndexRef, seedProp>>
        /\ UNCHANGED <<neededVars, workerVars, mathVars, meshVars, extraVars>>

\* a tick that is given some of the responses that arrived
SteadyTickSome == \E count \in 0..Len(workerResponsesRef) : SteadyTick(count)

\* a tick that is given all the responses that arrived
SteadyTickAll == SteadyTick(Len(workerResponsesRef))

\* the worker answers the oldest request
SteadyReply ==
  /\ workerInbox # <<>>
  /\ workerResponsesRef' = Append(workerResponsesRef, workerOnMessage(Head(workerInbox)))
  /\ workerInbox' = Tail(workerInbox)
  /\ UNCHANGED <<managerVars, chunks, forceApplyResponsesRef, destroyedVoxelIndexRef, seedProp>>
  /\ UNCHANGED <<neededVars, workerVars, mathVars, meshVars, extraVars>>

NextSteady == SteadyTickSome \/ SteadyTickAll \/ SteadyReply

\* ENABLED <<SteadyTickAll>>_vars as a state predicate: a tick that is given
\* all the responses that arrived would change a variable
SteadyTickDue ==
  LET workerResponses == dequeueBatch(workerResponsesRef, Len(workerResponsesRef))
      params == [playerX |-> SteadyPosition[1], playerZ |-> SteadyPosition[2],
                 seedStr |-> SteadySeed, workerResponses |-> workerResponses.batch,
                 allowRequest |-> TRUE, allowApply |-> TRUE]
  IN  \E r \in {tick(Manager, params)} :
        \/ r.m # Manager
        \/ r.result # result
        \/ r.result.request # <<>>
        \/ workerResponsesRef # <<>>
        \/ call # [op |-> "tick", playerX |-> SteadyPosition[1],
                    playerZ |-> SteadyPosition[2], seedStr |-> SteadySeed,
                    supplied |-> 0, response |-> <<>>]

\* weak fairness of SteadyTickAll, with its enabling condition written as
\* SteadyTickDue
SteadyTicksKeepComing == []<>(~SteadyTickDue) \/ []<><<SteadyTickAll>>_vars

\* ticks keep being called and are eventually given what arrived; the worker
\* eventually answers
SpecSteady ==
  /\ InitSteady /\ [][NextSteady]_vars
  /\ SteadyTicksKeepComing /\ WF_vars(SteadyReply)

(***************************************************************************)
(* getVoxel.ts: the voxel of a column's surface profile, and the solidity  *)
(* predicate of Game.tsx. A SurfaceProfile is the record getSurfaceProfile *)
(* returns; getVoxel and isSolidTerrainVoxel are given the profile of      *)
(* their column in place of (seedStr, x, z).                               *)
(***************************************************************************)
HUT_TEMPLATES ==
  << [offsetX |-> -6, offsetZ |-> -4, sizeX |-> 5, sizeZ |-> 5, door |-> "south"],
     [offsetX |-> 6, offsetZ |-> 3, sizeX |-> 4, sizeZ |-> 6, door |-> "west"] >>

\* the body of the loop over HUT_TEMPLATES for one hut: <<>> when it
\* continues, <<id>> when it returns id
hutVoxel(profile, y, hut) ==
  LET wallBottom == profile.surfaceHeight + 1
      wallTop == profile.surfaceHeight + 3
      roofY == profile.surfaceHeight + 4
      centerX == profile.villageCenterX + hut.offsetX
      centerZ == profile.villageCenterZ + hut.offsetZ
      minX == centerX - floorDiv(hut.sizeX, 2)
      maxX == minX + hut.sizeX - 1
      minZ == centerZ - floorDiv(hut.sizeZ, 2)
      maxZ == minZ + hut.sizeZ - 1
      inside == /\ profile.localX >= minX /\ profile.localX <= maxX
                /\ profile.localZ >= minZ /\ profile.localZ <= maxZ
      onBoundary == \/ profile.localX = minX \/ profile.localX = maxX
                    \/ profile.localZ = minZ \/ profile.localZ = maxZ
      doorX == floorDiv(minX + maxX, 2)
      doorZ == floorDiv(minZ + maxZ, 2)
      isDoor == \/ hut.door = "south" /\ profile.localZ = maxZ /\ profile.localX = doorX
                \/ hut.door = "west" /\ profile.localX = minX /\ profile.localZ = doorZ
  IN  IF ~inside THEN <<>>
      ELSE IF y = profile.surfaceHeight THEN <<VOXEL_STONE>>
      ELSE IF y > roofY THEN <<VOXEL_AIR>>
      ELSE IF y = roofY THEN <<VOXEL_DIRT>>
      ELSE IF y < wallBottom \/ y > wallTop THEN <<>>
      ELSE IF ~onBoundary THEN <<VOXEL_AIR>>
      ELSE IF isDoor /\ y <= wallBottom + 1 THEN <<VOXEL_AIR>>
      ELSE <<VOXEL_STONE>>

RECURSIVE hutLoop(_, _, _)
hutLoop(profile, y, i) ==
  IF i > Len(HUT_TEMPLATES) THEN <<>>
  ELSE Then(hutVoxel(profile, y, HUT_TEMPLATES[i]), LAMBDA found :
         IF found # <<>> THEN found ELSE hutLoop(profile, y, i + 1))

\* null is <<>>, a VoxelId id is <<id>>
getVillageStructureVoxel(profile, y) ==
  IF ~profile.isVillage THEN <<>> ELSE hutLoop(profile, y, 1)

getVoxel(profile, y) ==
  LET surfaceHeight == profile.surfaceHeight
      structureVoxel == getVillageStructureVoxel(profile, y)
  IN  IF y < surfaceHeight
      THEN IF y >= surfaceHeight - DIRT_LAYER_DEPTH THEN VOXEL_DIRT ELSE VOXEL_STONE
      ELSE IF structureVoxel # <<>> THEN structureVoxel[1]
      ELSE IF y > surfaceHeight THEN VOXEL_AIR
      ELSE IF profile.isRiver THEN VOXEL_DIRT
      ELSE IF profile.isVillageRoad THEN VOXEL_STONE
      ELSE IF profile.isVillage THEN VOXEL_DIRT
      ELSE VOXEL_GRASS

getSurfaceHeight(profile) == profile.surfaceHeight

\* mutant: the surface voxel is not solid
isSolidTerrainVoxel_BelowSurface(profile, y) == y < getSurfaceHeight(profile)

isSolidTerrainVoxel(profile, y) == y <= getSurfaceHeight(profile)

\* Game.tsx: isSolidAtVoxel(ix, iy, iz), with the index it reads and the
\* profile of the column (ix, iz) under the seed
isSolidAtVoxel(index, profile, ix, iy, iz) ==
  IF hasDestroyedVoxel(index, ix, iy, iz) THEN FALSE
  ELSE isSolidTerrainVoxel(profile, iy)

\* the profile getSurfaceProfile builds for a column at (localX, localZ) of
\* a village cell whose center has no jitter, from what the noise functions
\* decide: the surface height, a river, or ground low enough for a village
villageProfile(kind, localX, localZ, surfaceHeight) ==
  LET villageCenterX == floorDiv(VILLAGE_CELL_SIZE, 2)
      villageCenterZ == floorDiv(VILLAGE_CELL_SIZE, 2)
      dx == localX - villageCenterX
      dz == localZ - villageCenterZ
      inVillage == dx * dx + dz * dz <= VILLAGE_RADIUS * VILLAGE_RADIUS
      isVillageRoad == inVillage /\ (Abs(dx) <= VILLAGE_ROAD_HALF_WIDTH
                                       \/ Abs(dz) <= VILLAGE_ROAD_HALF_WIDTH)
      isRiver == kind = "river"
      allowVillage == kind = "low"
  IN  [surfaceHeight |-> surfaceHeight, isRiver |-> isRiver,
       isVillage |-> allowVillage /\ inVillage,
       isVillageRoad |-> allowVillage /\ isVillageRoad,
       localX |-> localX, localZ |-> localZ,
       villageCenterX |-> villageCenterX, villageCenterZ |-> villageCenterZ]

ProfileKinds == { "river", "low", "high" }

\* columns around the two huts, the first village cell being at the origin
\* of the world (x = localX, z = localZ)
HutColumns ==
  { <<x, z>> : x \in (floorDiv(VILLAGE_CELL_SIZE, 2) - MaxHutReach)
                       ..(floorDiv(VILLAGE_CELL_SIZE, 2) + MaxHutReach),
               z \in (floorDiv(VILLAGE_CELL_SIZE, 2) - MaxHutReach)
                       ..(floorDiv(VILLAGE_CELL_SIZE, 2) + MaxHutReach) }

SolidInputs ==
  { [profile |-> villageProfile(kind, c[1], c[2], ProbeSurface),
     x |-> c[1], y |-> y, z |-> c[2],
     index |-> IF destroyed THEN addDestroyedVoxel(createDestroyedVoxelIndex, c[1], y, c[2])
               ELSE createDestroyedVoxelIndex] :
      kind \in ProfileKinds, c \in HutColumns,
      y \in (ProbeSurface - MaxBelow)..(ProbeSurface + MaxAbove),
      destroyed \in BOOLEAN }

InitSolid ==
  /\ NewManager(GameConfig)
  /\ IdleNeeded /\ IdleGame /\ IdleWorker /\ IdleMath /\ IdleMesh
  /\ IdleBatch /\ IdleCache /\ IdleSeam
  /\ solidInput \in SolidInputs
  /\ solidResult = <<>>

\* the voxel the mesher is given and the answer collision and raycasting get
ProbeVoxel ==
  /\ solidResult = <<>>
  /\ solidResult' =
       <<[voxel |-> getVoxel(solidInput.profile, solidInput.y),
          solid |-> isSolidAtVoxel(solidInput.index, solidInput.profile,
                                   solidInput.x, solidInput.y, solidInput.z)]>>
  /\ UNCHANGED <<managerVars, neededVars, gameVars, workerVars, mathVars, meshVars>>
  /\ UNCHANGED <<batchVars, cacheVars, seamVars, solidInput>>

NextSolid == ProbeVoxel

SpecSolid == InitSolid /\ [][NextSolid]_vars

(***************************************************************************)
(* buildChunkVoxels.ts and greedyMesh for two adjacent chunks of one world. *)
(* The chunk is SeamSize wide and SeamHeight high here (CHUNK_SIZE and      *)
(* CHUNK_HEIGHT in the source); terrain gives the surface height of every  *)
(* column, standing for getSurfaceProfile of one seed.                     *)
(***************************************************************************)
SeamDims == [x |-> SeamSize + 2, y |-> SeamHeight + 2, z |-> SeamSize + 2]

\* the profile of column (x, z): ground too high for a village, no river
seamProfile(terrain, x, z) ==
  villageProfile("high", floorMod(x, VILLAGE_CELL_SIZE), floorMod(z, VILLAGE_CELL_SIZE),
                 terrain[<<x, z>>])

\* isDestroyed is hasDestroyedVoxel on the worker's index
buildChunkVoxelsWithOverrides(terrain, cx, cz, index) ==
  LET worldX0 == cx * SeamSize
      worldZ0 == cz * SeamSize
  IN  [i \in 1..(SeamDims.x * SeamDims.y * SeamDims.z) |->
         LET px == (i - 1) % SeamDims.x
             pz == ((i - 1) \div SeamDims.x) % SeamDims.z
             py == (i - 1) \div (SeamDims.x * SeamDims.z)
             worldX == worldX0 + (px - 1)
             worldY == py - 1
             worldZ == worldZ0 + (pz - 1)
         IN  IF hasDestroyedVoxel(index, worldX, worldY, worldZ) THEN 0
             ELSE getVoxel(seamProfile(terrain, worldX, worldZ), worldY)]

\* meshChunk: the buffer of the chunk, then greedyMesh with the padded
\* dimensions
meshChunkVoxels(terrain, cx, cz, index) ==
  Then(buildChunkVoxelsWithOverrides(terrain, cx, cz, index), LAMBDA voxels :
    greedyMesh(voxels, SeamDims))

\* the second chunk is the neighbour of chunk (0, 0) along the axis
SeamChunks(axis) == IF axis = "x" THEN << <<0, 0>>, <<1, 0>> >> ELSE << <<0, 0>>, <<0, 1>> >>

\* the columns on the two sides of the boundary whose height varies: the
\* last column of the first chunk and the first of the second, at two places
\* along the boundary
SeamColumns(axis) ==
  IF axis = "x" THEN { <<x, z>> : x \in {SeamSize - 1, SeamSize}, z \in 0..1 }
  ELSE { <<x, z>> : x \in 0..1, z \in {SeamSize - 1, SeamSize} }

\* surface heights: 0 everywhere but for the columns at the boundary, which
\* range from below the chunk to its top
SeamTerrains(axis) ==
  { [c \in ((-1)..(2 * SeamSize)) \X ((-1)..(2 * SeamSize)) |->
       IF c \in SeamColumns(axis) THEN h[c] ELSE 0] :
      h \in [SeamColumns(axis) -> (-1)..(SeamHeight - 1)] }

\* nothing destroyed, or the voxel at height 0 of one of the two columns at
\* the boundary
SeamDestroyed(axis) ==
  { createDestroyedVoxelIndex } \cup
  { addDestroyedVoxel(createDestroyedVoxelIndex, c[1], 0, c[2]) :
      c \in { d \in SeamColumns(axis) : (IF axis = "x" THEN d[2] ELSE d[1]) = 0 } }

SeamInputs ==
  UNION { { [axis |-> axis, terrain |-> terrain, index |-> index] :
              terrain \in SeamTerrains(axis), index \in SeamDestroyed(axis) } :
          axis \in {"x", "z"} }

InitSeam ==
  /\ NewManager(GameConfig)
  /\ IdleNeeded /\ IdleGame /\ IdleWorker /\ IdleMath /\ IdleMesh
  /\ IdleBatch /\ IdleCache /\ IdleSolid
  /\ seamInput \in SeamInputs
  /\ seamMeshes = << <<>>, <<>> >>

\* the worker meshes chunk i of the two
MeshSeamChunk(i) ==
  /\ seamMeshes[i] = <<>>
  /\ seamMeshes' =
       [seamMeshes EXCEPT ![i] =
          <<meshChunkVoxels(seamInput.terrain, SeamChunks(seamInput.axis)[i][1],
                            SeamChunks(seamInput.axis)[i][2], seamInput.index)>>]
  /\ UNCHANGED <<managerVars, neededVars, gameVars, workerVars, mathVars, meshVars>>
  /\ UNCHANGED <<batchVars, cacheVars, solidVars, seamInput>>

MeshFirstChunk == MeshSeamChunk(1)

MeshSecondChunk == MeshSeamChunk(2)

NextSeam == MeshFirstChunk \/ MeshSecondChunk

SpecSeam == InitSeam /\ [][NextSeam]_vars

(***************************************************************************)
(* Vocabulary of the properties                                            *)
(***************************************************************************)
Entries(map) == { map[i] : i \in 1..Len(map) }

Range(seq) == { seq[i] : i \in 1..Len(seq) }

\* the chunk of a world coordinate: the q with q * 16 <= x < (q + 1) * 16
ChunkOf(x) == CHOOSE q \in -8..8 : q * CHUNK_SIZE <= x /\ x < (q + 1) * CHUNK_SIZE

\* Chebyshev distance of chunk (cx, cz) to the center chunk of the call c
DistanceTo(cx, cz, c) ==
  LET dx == IF cx >= ChunkOf(c.playerX) THEN cx - ChunkOf(c.playerX) ELSE ChunkOf(c.playerX) - cx
      dz == IF cz >= ChunkOf(c.playerZ) THEN cz - ChunkOf(c.playerZ) ELSE ChunkOf(c.playerZ) - cz
  IN  IF dx >= dz THEN dx ELSE dz

\* a is served before b: nearer to the center of c, then smaller cz, then smaller cx
Before(a, b, c) ==
  \/ DistanceTo(a.cx, a.cz, c) < DistanceTo(b.cx, b.cz, c)
  \/ /\ DistanceTo(a.cx, a.cz, c) = DistanceTo(b.cx, b.cz, c)
     /\ \/ a.cz < b.cz
        \/ (a.cz = b.cz /\ a.cx < b.cx)

TickStep == calls' = calls + 1 /\ call'.op = "tick"

HandleStep == calls' = calls + 1 /\ call'.op = "handleWorkerResponse"

\* the tick about to happen tracks another seed than the manager does
SeedChanges == seedStr # <<call'.seedStr>>

(***************************************************************************)
(* Properties                                                               *)
(***************************************************************************)
\* C1: for a manager constructed with maxInflight = MaxInflight, inflight
\* holds at most MaxInflight keys after every call, and a tick returns a
\* request only when fewer than MaxInflight keys were inflight when its
\* dispatch step started (the returned request is the one key the dispatch
\* step added to inflight).
C1_InflightAtMostMaxInflight ==
  /\ Cardinality(KeySet(inflight)) <= MaxInflight
  /\ (call.op = "tick" /\ result.request # <<>>)
       => Cardinality(KeySet(inflight)) - 1 < MaxInflight

\* C2: no chunk key is in more than one of queued, inflight, readyToApply
\* and loaded.
C2_MappingsDisjoint ==
  /\ KeySet(queued) \cap KeySet(inflight) = {}
  /\ KeySet(queued) \cap KeySet(readyToApply) = {}
  /\ KeySet(queued) \cap KeySet(loaded) = {}
  /\ KeySet(inflight) \cap KeySet(readyToApply) = {}
  /\ KeySet(inflight) \cap KeySet(loaded) = {}
  /\ KeySet(readyToApply) \cap KeySet(loaded) = {}

\* C2 witness: after a tick that was handed two responses, all four
\* mappings hold keys at once.
C2_Witness ==
  /\ call.op = "tick"
  /\ call.supplied = 2
  /\ queued # <<>>
  /\ inflight # <<>>
  /\ readyToApply # <<>>
  /\ loaded # <<>>

\* C3: in every state, a tick called with allowRequest = false returns no
\* request and adds no key to inflight, and a tick called with
\* allowApply = false returns no apply and adds no key to loaded.
C3_GatingFlagsHonoured ==
  \A params \in TickParams :
    LET r == tick(Manager, params)
    IN  /\ ~params.allowRequest =>
             /\ r.result.request = <<>>
             /\ KeySet(r.m.inflight) \subseteq KeySet(inflight)
        /\ ~params.allowApply =>
             /\ r.result.apply = <<>>
             /\ KeySet(r.m.loaded) \subseteq KeySet(loaded)

\* C4: handleWorkerResponse called with a response whose key is not in
\* inflight leaves queued, inflight, readyToApply and loaded (and the
\* tracked seed) as they were.
C4_StaleResponseDiscarded ==
  [][ (HandleStep /\ call'.response[1].key \notin KeySet(inflight))
        => UNCHANGED <<loaded, inflight, queued, readyToApply, seedStr>> ]_vars

\* C4 witness: handleWorkerResponse was called with a response for a chunk
\* that was answered and applied before, and the chunk has no entry in
\* inflight or readyToApply.
C4_Witness ==
  /\ call.op = "handleWorkerResponse"
  /\ call.response[1].key \in KeySet(loaded)
  /\ call.response[1].key \notin KeySet(inflight) \cup KeySet(readyToApply)

\* C5: a loaded entry survives every tick that keeps the seed and whose
\* center chunk is within removeRadius of it: the entry stays in loaded,
\* its key is not in unloadKeys and the tick returns no request for its
\* chunk; handleWorkerResponse never touches loaded.
C5_LoadedStaysWithinRemoveRadius ==
  [][ /\ HandleStep => loaded' = loaded
      /\ TickStep =>
           \A e \in Entries(loaded) :
             (~SeedChanges /\ DistanceTo(e.v.cx, e.v.cz, call') <= removeRadius)
               => /\ e \in Entries(loaded')
                  /\ e.k \notin Range(result'.unloadKeys)
                  /\ \A i \in 1..Len(result'.request) :
                       <<result'.request[i].cx, result'.request[i].cz>> # <<e.v.cx, e.v.cz>> ]_vars

\* C5 witness: a tick whose center chunk is another chunk than a loaded
\* one, farther than activeRadius and within removeRadius of it, and that
\* chunk was loaded before this tick (it is not the one the tick applied).
C5_Witness ==
  /\ call.op = "tick"
  /\ \E e \in Entries(loaded) :
       /\ DistanceTo(e.v.cx, e.v.cz, call) > activeRadius
       /\ DistanceTo(e.v.cx, e.v.cz, call) <= removeRadius
       /\ result.apply # <<e.v>>
       /\ result.unloadKeys = <<>>

\* C6: the unloadKeys of a tick hold, once each, exactly the keys that were
\* loaded before the tick and whose chunk is farther than removeRadius from
\* the tick's center chunk or whose seed the tick replaces; none of them is
\* loaded after the tick.
C6_UnloadedExactlyOnceOnLeaving ==
  [][ TickStep =>
        LET leaving == { e \in Entries(loaded) :
                           SeedChanges \/ DistanceTo(e.v.cx, e.v.cz, call') > removeRadius }
        IN  /\ Range(result'.unloadKeys) = { e.k : e \in leaving }
            /\ Len(result'.unloadKeys) = Cardinality(leaving)
            /\ Range(result'.unloadKeys) \cap KeySet(loaded') = {} ]_vars

\* C6 witness: a tick reported a key in unloadKeys whose chunk is farther
\* than removeRadius from the tick's center chunk, every request so far
\* having been made for the tick's seed (the unload is by distance).
C6_Witness ==
  /\ call.op = "tick"
  /\ \A q \in posted : q.seedStr = call.seedStr
  /\ \E i \in 1..Len(result.unloadKeys) :
       LET coord == parseChunkKey(result.unloadKeys[i])
       IN  DistanceTo(coord.cx, coord.cz, call) > removeRadius

\* C7: a tick whose seed differs from the tracked seed returns as
\* unloadKeys the keys of loaded as they were before the tick, each once,
\* and afterwards loaded and readyToApply are empty and every entry of
\* queued and inflight is a request for the new seed.
C7_SeedChangeClearsAll ==
  [][ (TickStep /\ SeedChanges) =>
        /\ result'.unloadKeys = MapKeys(loaded)
        /\ loaded' = <<>>
        /\ readyToApply' = <<>>
        /\ result'.apply = <<>>
        /\ \A e \in Entries(queued') \cup Entries(inflight') : e.v.seedStr = call'.seedStr ]_vars

\* C7 witness: a tick reported unloadKeys although every reported chunk is
\* within removeRadius of its center chunk (the seed changed), and requests
\* for the new seed are tracked.
C7_Witness ==
  /\ call.op = "tick"
  /\ result.unloadKeys # <<>>
  /\ \A i \in 1..Len(result.unloadKeys) :
       LET coord == parseChunkKey(result.unloadKeys[i])
       IN  DistanceTo(coord.cx, coord.cz, call) <= removeRadius
  /\ inflight # <<>>

\* C8: a tick adds at most one entry to inflight and at most one entry to
\* loaded, and neither mapping grows by more than one.
C8_OneRequestOneApplyPerTick ==
  [][ TickStep =>
        /\ Cardinality(Entries(inflight') \ Entries(inflight)) <= 1
        /\ Cardinality(Entries(loaded') \ Entries(loaded)) <= 1
        /\ Len(inflight') <= Len(inflight) + 1
        /\ Len(loaded') <= Len(loaded) + 1
        /\ Len(result'.request) <= 1
        /\ Len(result'.apply) <= 1 ]_vars

\* C8 witness: a tick that was handed two responses returned a request and
\* an apply while a ready response and several queued requests stay behind.
C8_Witness ==
  /\ call.op = "tick"
  /\ call.supplied = 2
  /\ result.request # <<>>
  /\ result.apply # <<>>
  /\ readyToApply # <<>>
  /\ Len(queued) >= 2

\* C9: the response a tick returns as apply is before every entry left in
\* readyToApply: nearer to the tick's center chunk, or as near with a
\* smaller cz, or as near with the same cz and a smaller cx.
C9_ApplyIsNearestReady ==
  (call.op = "tick" /\ result.apply # <<>>)
    => \A e \in Entries(readyToApply) : Before(result.apply[1], e.v, call)

\* C9 witness: a tick returned an apply and left in readyToApply a response
\* as near to the center chunk as the applied one, so the tie-break decided.
C9_Witness ==
  /\ call.op = "tick"
  /\ result.apply # <<>>
  /\ \E e \in Entries(readyToApply) :
       DistanceTo(e.v.cx, e.v.cz, call)
         = DistanceTo(result.apply[1].cx, result.apply[1].cz, call)

\* the key text of chunk (cx, cz), for single-digit coordinates
KeyText(cx, cz) ==
  LET text(n) == IF n < 0 THEN <<"-", DigitChars[1 - n]>> ELSE <<DigitChars[n + 1]>>
  IN  text(cx) \o <<",">> \o text(cz)

\* C10: computeNeededChunkKeys(cx, cz, r) returns (2r+1)^2 keys, the keys of
\* the chunks at Chebyshev distance <= r from (cx, cz), each once, in
\* ascending order of distance, then cz, then cx; the first is the center's.
C10_NeededKeysSquareSorted ==
  neededKeys # <<>> =>
    LET c == [playerX |-> neededArgs[1] * CHUNK_SIZE, playerZ |-> neededArgs[2] * CHUNK_SIZE]
        r == neededArgs[3]
        square == { p \in ((neededArgs[1] - r)..(neededArgs[1] + r))
                            \X ((neededArgs[2] - r)..(neededArgs[2] + r)) : TRUE }
        at(i) == CHOOSE p \in square : KeyText(p[1], p[2]) = neededKeys[i]
    IN  /\ Len(neededKeys) = (2 * r + 1) * (2 * r + 1)
        /\ Range(neededKeys) = { KeyText(p[1], p[2]) : p \in square }
        /\ \A i, j \in 1..Len(neededKeys) :
             i < j => Before([cx |-> at(i)[1], cz |-> at(i)[2]],
                             [cx |-> at(j)[1], cz |-> at(j)[2]], c)
        /\ neededKeys[1] = KeyText(neededArgs[1], neededArgs[2])

\* C10 witness: the keys of a square of radius 2 around a center with
\* negative coordinates were computed.
C10_Witness ==
  /\ neededKeys # <<>>
  /\ neededArgs[3] = 2
  /\ neededArgs[1] < 0
  /\ neededArgs[2] < 0
  /\ Len(neededKeys) = 25

\* C11: in the Game frame loop the rendered chunk map gains a key only by a
\* tick's apply and loses one only by a tick's unloadKeys, so after every
\* frame its key set is the key set of the manager's loaded.
C11_RenderedKeysAreLoadedKeys ==
  KeySet(chunks) = KeySet(loaded)

\* the voxels of the padded chunk (cx, cz): the chunk's own columns and one
\* column of halo on each side
InPaddedChunk(t, cx, cz) ==
  /\ t[1] \in (cx * CHUNK_SIZE - 1)..((cx + 1) * CHUNK_SIZE)
  /\ t[3] \in (cz * CHUNK_SIZE - 1)..((cz + 1) * CHUNK_SIZE)

C13_FloorDivModIdentity ==
  mathResult # <<>> =>
    LET a == mathArgs[1]
        b == mathArgs[2]
        r == mathResult[1]
    IN  /\ r.div * b + r.mod = a
        /\ 0 <= r.mod /\ r.mod < b
        /\ r.coord = [chunk |-> r.div, local |-> r.mod]
        /\ (a = -1 /\ b = 16) => r.coord = [chunk |-> -1, local |-> 15]

\* C13 witness: worldToChunk(-1, 16) was computed
C13_Witness ==
  /\ mathArgs = <<-1, 16>>
  /\ mathResult # <<>>
  /\ mathResult[1].coord.chunk = -1

\* C14: for every padded buffer with all dimensions >= 3 the payload of
\* greedyMesh has positions, normals and colors of the same length
\* 12 * quadCount, indices of length 6 * quadCount = indexCount, and every
\* index is below positions.length / 3.
C14_BuffersConsistent ==
  meshResult # <<>> =>
    LET p == meshResult[1]
    IN  /\ Len(p.positions) = 12 * p.quadCount
        /\ Len(p.normals) = 12 * p.quadCount
        /\ Len(p.colors) = 12 * p.quadCount
        /\ Len(p.indices) = 6 * p.quadCount
        /\ p.indexCount = Len(p.indices)
        /\ \A i \in 1..Len(p.indices) :
             p.indices[i] >= 0 /\ 3 * p.indices[i] < Len(p.positions)

\* C14 witness: a mesh of several quads, the last ones indexing vertices
\* beyond the first quad's
C14_Witness ==
  /\ meshResult # <<>>
  /\ meshResult[1].quadCount >= 7
  /\ meshResult[1].indices[Len(meshResult[1].indices)] >= 24

\* Reading a payload: quad q has its four vertices at positions
\* 12 (q - 1) + 1 .. 12 q, as <<x, y, z>> each, with one normal and one colour
QuadVertex(p, q, k) ==
  <<p.positions[12 * (q - 1) + 3 * k + 1], p.positions[12 * (q - 1) + 3 * k + 2],
    p.positions[12 * (q - 1) + 3 * k + 3]>>

QuadNormal(p, q) ==
  <<p.normals[12 * (q - 1) + 1], p.normals[12 * (q - 1) + 2], p.normals[12 * (q - 1) + 3]>>

QuadColor(p, q) ==
  <<p.colors[12 * (q - 1) + 1], p.colors[12 * (q - 1) + 2], p.colors[12 * (q - 1) + 3]>>

\* the least and the greatest coordinate of quad q along axis e (1: x, 2: y, 3: z)
QuadMin(p, q, e) ==
  CHOOSE m \in { QuadVertex(p, q, k)[e] : k \in 0..3 } :
    \A k \in 0..3 : m <= QuadVertex(p, q, k)[e]

QuadMax(p, q, e) ==
  CHOOSE m \in { QuadVertex(p, q, k)[e] : k \in 0..3 } :
    \A k \in 0..3 : m >= QuadVertex(p, q, k)[e]

\* quad q lies in the plane at coordinate c[d] of axis d and covers the unit
\* face of the cell c there
QuadCovers(p, q, d, c) ==
  /\ QuadNormal(p, q)[d] # 0
  /\ QuadMin(p, q, d) = c[d] /\ QuadMax(p, q, d) = c[d]
  /\ \A e \in (1..3) \ {d} : QuadMin(p, q, e) <= c[e] /\ c[e] + 1 <= QuadMax(p, q, e)

\* the voxel at local coordinates c of a buffer (-1 and the inner size are
\* the halo)
VoxelAt(input, c) ==
  input.voxels[(c[2] + 1) * input.dims.x * input.dims.z + (c[3] + 1) * input.dims.x
               + (c[1] + 1) + 1]

InnerSize(input) == <<input.dims.x - 2, input.dims.y - 2, input.dims.z - 2>>

\* the unit faces of the slices: axis d and the cell c above the plane, c[d]
\* in 0..inner[d] and the other coordinates inside the inner volume
SliceFaces(input) ==
  { f \in (1..3) \X ((0..InnerSize(input)[1]) \X (0..InnerSize(input)[2])
                      \X (0..InnerSize(input)[3])) :
      \A e \in (1..3) \ {f[1]} : f[2][e] < InnerSize(input)[e] }

\* the cell below the plane of face f
Below(f) == [f[2] EXCEPT ![f[1]] = f[2][f[1]] - 1]

MeshOf(dims, solid, materials, halo) ==
  [voxels |-> voxelsOf(dims, solid, materials, halo), dims |-> dims]

\* C15: the quads of greedyMesh partition the exposed unit faces: a face of
\* a slice is covered by exactly one quad when exactly one of the two voxels
\* on its sides (halo included) is solid, the quad having that voxel's
\* colour and a normal from solid to Air, and by no quad otherwise; every
\* quad lies within the inner volume. So one isolated voxel gives 6 quads,
\* two face-adjacent voxels of one material 6, a solid inner volume 6, and a
\* solid halo neighbour takes one face away (5).
C15_QuadsPartitionExposedFaces ==
  meshResult # <<>> =>
    LET p == meshResult[1]
        quads == 1..p.quadCount
    IN  /\ \A f \in SliceFaces(meshInput) :
             LET a == VoxelAt(meshInput, Below(f))
                 b == VoxelAt(meshInput, f[2])
                 covering == { q \in quads : QuadCovers(p, q, f[1], f[2]) }
             IN  IF (a # VOXEL_AIR) # (b # VOXEL_AIR)
                 THEN /\ Cardinality(covering) = 1
                      /\ \A q \in covering :
                           /\ QuadColor(p, q) = colorForVoxel(IF a # VOXEL_AIR THEN a ELSE b)
                           /\ QuadNormal(p, q)[f[1]] = (IF a # VOXEL_AIR THEN 1 ELSE -1)
                 ELSE covering = {}
        /\ \A q \in quads :
             /\ Cardinality({ d \in 1..3 : QuadNormal(p, q)[d] # 0 }) = 1
             /\ \A e \in 1..3 :
                  QuadMin(p, q, e) >= 0 /\ QuadMax(p, q, e) <= InnerSize(meshInput)[e]
        /\ \A dims \in MeshDims :
             /\ meshInput = MeshOf(dims, { <<0, 0, 0>> }, "stone", "air") => p.quadCount = 6
             /\ meshInput = MeshOf(dims, InnerCells(dims), "stone", "air") => p.quadCount = 6
             /\ meshInput = MeshOf(dims, { <<0, 0, 0>> }, "stone", "west") => p.quadCount = 5
             /\ (dims.x >= 4 /\ meshInput = MeshOf(dims, { <<0, 0, 0>>, <<1, 0, 0>> }, "stone", "air"))
                  => p.quadCount = 6

\* C15 witness: the mesh of one stone voxel whose west neighbour in the halo
\* is stone
C15_Witness ==
  /\ meshResult # <<>>
  /\ meshInput = MeshOf([x |-> 5, y |-> 3, z |-> 5], { <<0, 0, 0>> }, "stone", "west")
  /\ meshResult[1].quadCount = 5

\* the signed material of the face f: the solid voxel's id when it is below
\* the plane, its negation when it is above, 0 when the face is not exposed
ExposedMaterial(input, f) ==
  LET a == VoxelAt(input, Below(f))
      b == VoxelAt(input, f[2])
  IN  IF (a # VOXEL_AIR) = (b # VOXEL_AIR) THEN 0 ELSE IF a # VOXEL_AIR THEN a ELSE -b

SignedMaterials ==
  { VOXEL_GRASS, VOXEL_DIRT, VOXEL_STONE, -VOXEL_GRASS, -VOXEL_DIRT, -VOXEL_STONE }

\* the cells of the exposed faces of signed material m in the slice at
\* plane w of axis d
Region(input, d, w, m) ==
  { f[2] : f \in { g \in SliceFaces(input) :
                     g[1] = d /\ g[2][d] = w /\ ExposedMaterial(input, g) = m } }

\* the quads of the payload in that slice with that signed material
SliceQuads(p, d, w, m) ==
  { q \in 1..p.quadCount :
      /\ QuadNormal(p, q)[d] = (IF m > 0 THEN 1 ELSE -1)
      /\ QuadMin(p, q, d) = w
      /\ QuadColor(p, q) = colorForVoxel(IF m > 0 THEN m ELSE -m) }

\* the cells between the corners lo and hi
Box(lo, hi) == (lo[1]..hi[1]) \X (lo[2]..hi[2]) \X (lo[3]..hi[3])

\* the first cell of a set in the order by z, then y, then x: the low corner
\* of its rectangle in every partition of the set into rectangles
FirstCell(cells) ==
  CHOOSE c \in cells :
    \A o \in cells :
      \/ c[3] < o[3]
      \/ c[3] = o[3] /\ c[2] < o[2]
      \/ c[3] = o[3] /\ c[2] = o[2] /\ c[1] <= o[1]

Least(numbers) == CHOOSE n \in numbers : \A o \in numbers : n <= o

\* the least number of axis-aligned rectangles that partition a set of
\* cells of one slice
RECURSIVE MinRects(_)
MinRects(cells) ==
  IF cells = {} THEN 0
  ELSE LET lo == FirstCell(cells)
           his == { hi \in cells : Box(lo, hi) # {} /\ Box(lo, hi) \subseteq cells }
       IN  1 + Least({ MinRects(cells \ Box(lo, hi)) : hi \in his })

\* the slices of a buffer: axis d and plane w
Slices(input) == { s \in (1..3) \X (0..3) : s[2] <= InnerSize(input)[s[1]] }

\* the number of unit faces of quad q
QuadArea(p, q) ==
  LET side(e) == IF QuadMax(p, q, e) = QuadMin(p, q, e) THEN 1
                 ELSE QuadMax(p, q, e) - QuadMin(p, q, e)
  IN  side(1) * side(2) * side(3)

\* the number of unit faces of the bounding rectangle of quads q and r of
\* one slice
PairArea(p, q, r) ==
  LET lo(e) == IF QuadMin(p, q, e) <= QuadMin(p, r, e) THEN QuadMin(p, q, e)
               ELSE QuadMin(p, r, e)
      hi(e) == IF QuadMax(p, q, e) >= QuadMax(p, r, e) THEN QuadMax(p, q, e)
               ELSE QuadMax(p, r, e)
      side(e) == IF hi(e) = lo(e) THEN 1 ELSE hi(e) - lo(e)
  IN  side(1) * side(2) * side(3)

\* C16 as stated: in every slice and for every signed material, greedyMesh
\* emits no more quads than the least number of rectangles that partition
\* the exposed faces
C16_QuadSetMinimal ==
  meshResult # <<>> =>
    \A s \in Slices(meshInput) : \A m \in SignedMaterials :
      Cardinality(SliceQuads(meshResult[1], s[1], s[2], m))
        <= MinRects(Region(meshInput, s[1], s[2], m))

\* C16 amended: the quad set of greedyMesh cannot be reduced by merging two
\* quads: no two quads of one slice and one signed material together form a
\* rectangle
C16_NoTwoQuadsFormARectangle ==
  meshResult # <<>> =>
    LET p == meshResult[1]
    IN  \A s \in Slices(meshInput) : \A m \in SignedMaterials :
          \A q, r \in SliceQuads(p, s[1], s[2], m) :
            q # r => PairArea(p, q, r) # QuadArea(p, q) + QuadArea(p, r)

\* C16 witness: a T-shaped region of four stone faces in a y slice is meshed
\* with three quads, none of them mergeable with another, where two
\* rectangles partition it
C16_Witness ==
  /\ meshResult # <<>>
  /\ meshInput = MeshOf([x |-> 5, y |-> 3, z |-> 5],
                        { <<0, 0, 1>>, <<1, 0, 0>>, <<1, 0, 1>>, <<1, 0, 2>> }, "stone", "air")
  /\ Cardinality(SliceQuads(meshResult[1], 2, 1, VOXEL_STONE)) = 3
  /\ MinRects(Region(meshInput, 2, 1, VOXEL_STONE)) = 2

\* the queue the request of the tick just made was taken from: the request's
\* entry followed by what is left in queued
QueueAtDispatch ==
  <<[k |-> chunkKey(result.request[1].cx, result.request[1].cz), v |-> result.request[1]]>>
    \o queued

\* the entries queued before the tick about to happen that are still in the
\* queue at its dispatch, in the order they had (a seed change drops them all)
OlderEntries ==
  IF SeedChanges THEN <<>>
  ELSE SelectSeq(queued, LAMBDA e : e \in Range(QueueAtDispatch'))

\* C17: the request of a tick is the earliest-inserted entry of queued at
\* dispatch: the queue at dispatch is the older entries still queued, in
\* their order, followed by the entries this tick enqueued in the order of
\* the needed keys (each before the next one), and the request is its head
C17_RequestIsEarliestInserted ==
  [][(TickStep /\ result'.request # <<>>) =>
       \E atDispatch \in {QueueAtDispatch'} :
       \E older \in {IF SeedChanges THEN <<>>
                     ELSE SelectSeq(queued, LAMBDA e : e \in Range(atDispatch))} :
         /\ Len(older) <= Len(atDispatch)
         /\ SubSeq(atDispatch, 1, Len(older)) = older
         /\ \A i \in (Len(older) + 1)..Len(atDispatch) : atDispatch[i] \notin Range(older)
         /\ \A i \in (Len(older) + 1)..(Len(atDispatch) - 1) :
              Before(atDispatch[i].v, atDispatch[i + 1].v, call')]_vars

\* C17 witness: a tick dispatched an entry while a chunk nearer to its
\* center stayed queued
C17_Witness ==
  /\ call.op = "tick"
  /\ result.request # <<>>
  /\ \E e \in Entries(queued) :
       DistanceTo(e.v.cx, e.v.cz, call)
         < DistanceTo(result.request[1].cx, result.request[1].cz, call)

\* C18 as stated: the request of a tick is at the least Chebyshev distance
\* to the tick's center among the chunks queued at dispatch
C18_RequestIsNearestQueued ==
  (call.op = "tick" /\ result.request # <<>>) =>
    \A e \in Entries(queued) :
      DistanceTo(result.request[1].cx, result.request[1].cz, call)
        <= DistanceTo(e.v.cx, e.v.cz, call)

\* C18 amended: when no entry queued before a tick is still queued at its
\* dispatch, the request is at the least Chebyshev distance to the tick's
\* center among the chunks queued at dispatch
C18_RequestIsNearestOfNewlyQueued ==
  [][(TickStep /\ result'.request # <<>> /\ OlderEntries = <<>>) =>
       \A e \in Entries(queued') :
         DistanceTo(result'.request[1].cx, result'.request[1].cz, call')
           <= DistanceTo(e.v.cx, e.v.cz, call')]_vars

\* C18 witness: after a request of another seed, a tick away from chunk
\* (0, 0) dispatched its center chunk and left farther chunks queued
C18_Witness ==
  /\ call.op = "tick"
  /\ result.request # <<>>
  /\ \E old \in posted : old.seedStr # result.request[1].seedStr
  /\ ChunkOf(call.playerX) # 0
  /\ DistanceTo(result.request[1].cx, result.request[1].cz, call) = 0
  /\ queued # <<>>

\* the chunks at Chebyshev distance <= radius from the center chunk of call c
ChunksAround(c, radius) ==
  ((ChunkOf(c.playerX) - radius)..(ChunkOf(c.playerX) + radius))
    \X ((ChunkOf(c.playerZ) - radius)..(ChunkOf(c.playerZ) + radius))

\* the number of mappings of the manager that hold the key
TrackedIn(key) ==
  Cardinality({ n \in 1..4 :
    key \in KeySet(<<queued, inflight, readyToApply, loaded>>[n]) })

\* C19: after every tick, the key of every chunk at Chebyshev distance
\* <= activeRadius from the tick's center chunk is in exactly one of
\* queued, inflight, readyToApply and loaded
C19_NeededChunksTracked ==
  call.op = "tick" =>
    \A c \in ChunksAround(call, activeRadius) : TrackedIn(KeyText(c[1], c[2])) = 1

\* C19 witness: after a tick with activeRadius 1 away from chunk (0, 0), the
\* nine needed chunks are spread over all four mappings
C19_Witness ==
  /\ call.op = "tick"
  /\ activeRadius = 1
  /\ ChunkOf(call.playerX) # 0
  /\ queued # <<>> /\ inflight # <<>> /\ readyToApply # <<>> /\ loaded # <<>>
  /\ \A c \in ChunksAround(call, activeRadius) : TrackedIn(KeyText(c[1], c[2])) = 1

\* the keys the manager holds in its three pending mappings
PendingKeys == KeySet(queued) \cup KeySet(inflight) \cup KeySet(readyToApply)

\* C20: after every tick every key in queued, inflight, readyToApply or
\* loaded is at Chebyshev distance <= removeRadius from the tick's center
\* chunk and every key in queued at distance <= activeRadius; a key that the
\* tick dropped from queued, inflight or readyToApply is not in unloadKeys
C20_TrackedWithinRadii ==
  [][TickStep =>
       /\ \A e \in Entries(queued') \cup Entries(inflight') \cup Entries(readyToApply')
                     \cup Entries(loaded') :
            /\ DistanceTo(e.v.cx, e.v.cz, call') <= removeRadius
            /\ e.k = KeyText(e.v.cx, e.v.cz)
       /\ \A e \in Entries(queued') : DistanceTo(e.v.cx, e.v.cz, call') <= activeRadius
       /\ \A k \in PendingKeys :
            k \notin (PendingKeys' \cup KeySet(loaded')) => k \notin Range(result'.unloadKeys)]_vars

\* C20 witness: a request of the tracked seed was dispatched and its chunk
\* is in no mapping after a tick that reported nothing unloaded: the key was
\* pruned while pending
C20_Witness ==
  /\ call.op = "tick"
  /\ result.unloadKeys = <<>>
  /\ \E q \in posted :
       /\ seedStr = <<q.seedStr>>
       /\ TrackedIn(KeyText(q.cx, q.cz)) = 0
       /\ DistanceTo(q.cx, q.cz, call) > removeRadius

\* the request, if any, of the tick just made targets chunk (cx, cz)
Requests(res, cx, cz) ==
  \E i \in 1..Len(res.request) : <<res.request[i].cx, res.request[i].cz>> = <<cx, cz>>

FirstFor(batch, j) ==
  batch[CHOOSE i \in 1..j :
          /\ batch[i].key = batch[j].key
          /\ \A h \in 1..(i - 1) : batch[h].key # batch[j].key]

\* responses i < j of the batch a tick was given are two responses for one
\* key that was inflight when the tick began and kept the seed
Duplicated(batch, i, j) ==
  /\ i < j
  /\ batch[i].key = batch[j].key
  /\ batch[i] # batch[j]
  /\ batch[j].key \in KeySet(inflight)
  /\ ~SeedChanges

\* C22 as stated: of two responses for one inflight key in one batch, the
\* later one is what readyToApply holds, or what loaded holds once applied
C22_LaterResponseOverwrites ==
  [][TickStep =>
       \A i, j \in 1..Len(suppliedResponses') :
         Duplicated(suppliedResponses', i, j) =>
           \A e \in Entries(readyToApply') \cup Entries(loaded') :
             e.k = suppliedResponses'[j].key => e.v = suppliedResponses'[j]]_vars

\* C22 amended: of the responses for one inflight key in one batch, the
\* first one is what readyToApply holds, or what loaded holds once applied;
\* a later one is discarded
C22_EarlierResponseIsKept ==
  [][TickStep =>
       \A j \in 1..Len(suppliedResponses') :
         (suppliedResponses'[j].key \in KeySet(inflight) /\ ~SeedChanges) =>
           \A e \in Entries(readyToApply') \cup Entries(loaded') :
             e.k = suppliedResponses'[j].key => e.v = FirstFor(suppliedResponses', j)]_vars

\* C22 witness: a tick was given two different responses for one key and
\* returned the first of them as apply
C22_Witness ==
  /\ call.op = "tick"
  /\ Len(suppliedResponses) = 2
  /\ suppliedResponses[1].key = suppliedResponses[2].key
  /\ suppliedResponses[1] # suppliedResponses[2]
  /\ result.apply = <<suppliedResponses[1]>>

\* the number of profiles a surfaceCache holds
CachedCount(entry) ==
  LET RECURSIVE sum(_)
      sum(rows) == IF rows = <<>> THEN 0 ELSE Len(Head(rows).v) + sum(Tail(rows))
  IN  sum(entry.surfaceCache)

\* every surfaceCache holds at most SURFACE_CACHE_LIMIT profiles, as many as
\* its surfaceCacheSize says and as were put in and not evicted
CacheWithinCap ==
  \A e \in Entries(noiseCache) :
    /\ e.v.surfaceCacheSize <= SURFACE_CACHE_LIMIT
    /\ CachedCount(e.v) = e.v.surfaceCacheSize
    /\ Cardinality({ c \in cacheInserted : c.seedStr = e.k }) = e.v.surfaceCacheSize

\* the profiles and the rows that were cached for the seed of the last
\* lookup before it
CachedBefore == { c \in cacheInserted : c.seedStr = cacheEvent.seedStr /\ c.at < cacheClock }

RowsBefore == { w \in cacheRows : w.seedStr = cacheEvent.seedStr /\ w.at < cacheClock }

DestroyedSet(index) ==
  { t \in Shots \cup ProbeVoxels : hasDestroyedVoxel(index, t[1], t[2], t[3]) }

\* C24: once the worker has processed every remesh request posted (none is
\* on its way), the worker's destroyed-voxel set equals the main thread's
C24_WorkerMatchesCaller ==
  (\A i \in 1..Len(workerInbox) : ~Field(workerInbox[i], "forceApply", FALSE))
    => DestroyedSet(destroyedVoxelIndex) = DestroyedSet(destroyedVoxelIndexRef)

\* C25: a response computed for a request of another seed than the one the
\* manager tracks is never in readyToApply or loaded
C25_NoResponseOfAnotherSeedAccepted ==
  \A e \in Entries(readyToApply) \cup Entries(loaded) : seedStr = <<e.v.mesh[1]>>

\* the destroyed voxels the mesh of a payload was computed with
DestroyedIn(payload) == payload.mesh[4]

\* C26: the rendered mesh of a chunk never goes back to one computed before
\* a voxel it shows as destroyed was destroyed: a chunk that stays rendered
\* keeps every destroyed voxel its mesh had, and a chunk rendered after a
\* frame that took its forceApply response has every destroyed voxel of
\* that response
C26_RenderedMeshNeverLosesDestroyedVoxel ==
  [][ /\ \A e \in Entries(chunks) : \A f \in Entries(chunks') :
           e.k = f.k => DestroyedIn(e.v) \subseteq DestroyedIn(f.v)
      /\ Len(forceApplyResponsesRef') < Len(forceApplyResponsesRef) =>
           \A f \in Entries(chunks') :
             f.k = Head(forceApplyResponsesRef).key
               => DestroyedIn(Head(forceApplyResponsesRef)) \subseteq DestroyedIn(f.v) ]_vars

\* every chunk within activeRadius of the steady player's chunk is loaded
\* and nothing is pending
Settled ==
  /\ KeySet(loaded) =
       { KeyText(c[1], c[2]) :
           c \in ChunksAround([playerX |-> SteadyPosition[1], playerZ |-> SteadyPosition[2]],
                              activeRadius) }
  /\ queued = <<>> /\ inflight = <<>> /\ readyToApply = <<>>

\* C27: with the seed and the player's chunk fixed, ticks that keep coming
\* and responses that are eventually supplied, eventually every chunk
\* within activeRadius is loaded and queued, inflight and readyToApply are
\* empty
C27_EventuallyAllLoaded == <>Settled

\* C27 witness: the nine chunks around the player are loaded and nothing is
\* pending
C27_Witness == Settled /\ activeRadius = 1 /\ Len(loaded) = 9 /\ posted # {}

\* the keys dispatched and not yet loaded
AwaitingKeys == KeySet(inflight) \cup KeySet(readyToApply)

RequestedKeys(res) == { KeyText(res.request[i].cx, res.request[i].cz) : i \in 1..Len(res.request) }

AppliedKeys(res) == { KeyText(res.apply[i].cx, res.apply[i].cz) : i \in 1..Len(res.apply) }

\* the tick about to happen leaves key within removeRadius of its center
StaysInRange(key) ==
  \E i \in -8..8, j \in -8..8 :
    KeyText(i, j) = key /\ DistanceTo(i, j, call') <= removeRadius

\* C28: a key is inflight or in readyToApply only from a tick that returned
\* a request for it, under the seed the manager still tracks, and stays
\* there only through ticks that neither change the seed nor prune it; the
\* apply of a tick is for such a key, dispatched by an earlier tick, and
\* puts it in loaded; a key is in loaded only from an apply on, leaves loaded
\* only in a tick's unloadKeys, and every key in unloadKeys was in loaded,
\* appears once and is in loaded no more
C28_LifecycleOrder ==
  [][ /\ \A k \in AwaitingKeys :
           \E q \in posted : KeyText(q.cx, q.cz) = k /\ seedStr = <<q.seedStr>>
      /\ \A k \in AwaitingKeys' :
           \/ TickStep /\ k \in RequestedKeys(result')
           \/ k \in AwaitingKeys /\ (TickStep => (~SeedChanges /\ StaysInRange(k)))
      /\ TickStep =>
           \A k \in AppliedKeys(result') :
             /\ k \in AwaitingKeys /\ ~SeedChanges /\ StaysInRange(k)
             /\ k \notin RequestedKeys(result')
             /\ k \notin KeySet(loaded) /\ k \in KeySet(loaded')
      /\ TickStep =>
           /\ \A i \in 1..Len(result'.unloadKeys) :
                /\ result'.unloadKeys[i] \in KeySet(loaded)
                /\ result'.unloadKeys[i] \notin KeySet(loaded')
                /\ result'.unloadKeys[i] \notin AppliedKeys(result')
                /\ \A j \in 1..Len(result'.unloadKeys) :
                     result'.unloadKeys[i] = result'.unloadKeys[j] => i = j
      /\ \A k \in KeySet(loaded') :
           k \in KeySet(loaded) \/ (TickStep /\ k \in AppliedKeys(result'))
      /\ \A k \in KeySet(loaded) \ KeySet(loaded') :
           TickStep /\ k \in Range(result'.unloadKeys) ]_vars

\* C28 witness: the third tick unloads the chunk that the second tick
\* applied and the first tick requested
C28_Witness ==
  /\ call.op = "tick" /\ calls = 3
  /\ Len(result.unloadKeys) = 1
  /\ loaded = <<>>
  /\ \E q \in posted : KeyText(q.cx, q.cz) = result.unloadKeys[1]

\* the voxel asked about is not in the destroyed-voxel index
NotDestroyed ==
  ~hasDestroyedVoxel(solidInput.index, solidInput.x, solidInput.y, solidInput.z)

\* the footprints of the two huts around a village center: x and z ranges
HutFootprints(profile) ==
  { [minX |-> profile.villageCenterX - 8, maxX |-> profile.villageCenterX - 4,
     minZ |-> profile.villageCenterZ - 6, maxZ |-> profile.villageCenterZ - 2,
     doorX |-> profile.villageCenterX - 6, doorZ |-> profile.villageCenterZ - 2],
    [minX |-> profile.villageCenterX + 4, maxX |-> profile.villageCenterX + 7,
     minZ |-> profile.villageCenterZ, maxZ |-> profile.villageCenterZ + 5,
     doorX |-> profile.villageCenterX + 4, doorZ |-> profile.villageCenterZ + 2] }

\* the cell at height y of the column is a wall cell (not of the door gap)
\* or a roof cell of a hut
HutShell(profile, y) ==
  /\ profile.isVillage
  /\ \E h \in HutFootprints(profile) :
       /\ profile.localX \in h.minX..h.maxX /\ profile.localZ \in h.minZ..h.maxZ
       /\ \/ y = profile.surfaceHeight + 4
          \/ /\ y \in (profile.surfaceHeight + 1)..(profile.surfaceHeight + 3)
             /\ \/ profile.localX \in {h.minX, h.maxX}
                \/ profile.localZ \in {h.minZ, h.maxZ}
             /\ ~(/\ profile.localX = h.doorX /\ profile.localZ = h.doorZ
                  /\ y <= profile.surfaceHeight + 2)

\* C30 as claimed: for a voxel that is not destroyed, the solidity predicate
\* is true exactly when getVoxel returns a material other than Air
C30_SolidIffNotAir ==
  (solidResult # <<>> /\ NotDestroyed) =>
    (solidResult[1].solid <=> solidResult[1].voxel # VOXEL_AIR)

\* C30 amended: for a voxel that is not destroyed, the solidity predicate is
\* true exactly when y is at most the surface height; there getVoxel
\* returns a material other than Air; above the surface the predicate is
\* false and getVoxel returns a material other than Air exactly for the
\* wall and roof cells of a hut (Stone and Dirt), the door gap and the
\* interior being Air
C30_SolidIffAtOrBelowSurface ==
  (solidResult # <<>> /\ NotDestroyed) =>
    LET profile == solidInput.profile
        y == solidInput.y
        voxel == solidResult[1].voxel
        solid == solidResult[1].solid
    IN  /\ solid <=> y <= profile.surfaceHeight
        /\ y <= profile.surfaceHeight => voxel # VOXEL_AIR
        /\ y > profile.surfaceHeight =>
             /\ voxel # VOXEL_AIR <=> HutShell(profile, y)
             /\ HutShell(profile, y) =>
                  voxel = (IF y = profile.surfaceHeight + 4 THEN VOXEL_DIRT ELSE VOXEL_STONE)

\* C30 witness: a wall cell of a hut, two above the surface, was asked
\* about: Stone for the mesher, not solid for collision
C30_Witness ==
  /\ solidResult # <<>> /\ NotDestroyed
  /\ solidInput.y = solidInput.profile.surfaceHeight + 2
  /\ solidResult[1].voxel = VOXEL_STONE
  /\ ~solidResult[1].solid

\* the axis of adjacency as an index of a position: 1 is x, 3 is z
SeamAxis == IF seamInput.axis = "x" THEN 1 ELSE 3

\* the unit faces of the shared boundary plane, each named by the cell of the
\* second chunk it bounds, in the second chunk's local coordinates (the
\* coordinate along the axis is 0)
SeamFaces ==
  { c \in (0..(SeamSize - 1)) \X (0..(SeamHeight - 1)) \X (0..(SeamSize - 1)) :
      c[SeamAxis] = 0 }

\* the same face in the first chunk's local coordinates: a mesh is placed
\* at its chunk's origin, SeamSize apart along the axis
InFirst(c) == [c EXCEPT ![SeamAxis] = SeamSize]

\* the voxel at world coordinates c as both chunks' buffers hold it
SeamVoxel(c) ==
  IF hasDestroyedVoxel(seamInput.index, c[1], c[2], c[3]) THEN VOXEL_AIR
  ELSE getVoxel(seamProfile(seamInput.terrain, c[1], c[3]), c[2])

\* world coordinates of the cell c of the second chunk, and of the cell of
\* the first chunk across the boundary
InWorld(c) == [c EXCEPT ![SeamAxis] = SeamSize]

Across(c) == [c EXCEPT ![SeamAxis] = SeamSize - 1]

\* the quads of a mesh that cover the face of cell c in the boundary plane
CoveringQuads(p, c) == { q \in 1..p.quadCount : QuadCovers(p, q, SeamAxis, c) }

BothMeshed == seamMeshes # <<>> /\ seamMeshes[1] # <<>> /\ seamMeshes[2] # <<>>

====
